---- MODULE Spec2Model ----
(***************************************************************************)
(* A model of the custodial core of chapool/go-wallet: the hot-wallet      *)
(* nonce allocator, the BIP44 address-index allocator and wallet creation, *)
(* the withdraw state machine over the credits ledger, the confirmation    *)
(* processor with the finalized-deposit backfill, and the per-chain block  *)
(* scanner with its reorg handler.                                         *)
(*                                                                         *)
(* The relational store is modelled table by table; a table is a set of    *)
(* rows (records).  A SQL transaction that holds a row lock (SELECT ... FOR*)
(* UPDATE) is modelled by a lock variable; statements outside a            *)
(* transaction are separate steps.  Every component has its own            *)
(* specification (SpecNonce, SpecAddr, ...) over the shared variables.     *)
(***************************************************************************)
EXTENDS Integers, Sequences, FiniteSets, TLC

VARIABLES
    \* ---- hot-wallet nonce allocator (wallet_nonces) ----
    wallet_nonces,    \* rows of table wallet_nonces
    nonceLock,        \* (address, chain_id) -> processes holding the row lock
    nonceProc,        \* process -> position inside GetNextNonce
    nonceLog,         \* (address, chain_id) -> values returned, in commit order
    nonceOverlap,     \* a call committed while another call was in flight
    \* ---- address-index allocator and wallets ----
    address_indexes,  \* rows of table address_indexes
    wallets,          \* rows of table wallets
    addrProc,         \* process -> position inside CreateWallet/CreateHotWallet
    addrReturned,     \* indices returned by GetNextAddressIndex, in order
    addrFresh,        \* every returned index exceeded all persisted wallets
    addrOverlap,      \* two wallet-creation calls were in progress at once
    lastWalletCall,   \* the last CreateWallet call that found a wallet
    \* ---- ledger ----
    credits,          \* rows of table credits
    transactions,     \* rows of table transactions
    \* ---- deposit service ----
    depProc,          \* runner -> position inside the post-scan hook / backfill
    backfilled,       \* ids of the finalized deposits a backfill run covered
    \* ---- withdraw service ----
    withdraws,        \* rows of table withdraws
    wdLocked,         \* ids of the withdraw rows locked by a transaction
    wdProc,           \* process -> position inside Request/Approve/Process
    updProc,          \* position of the UpdateWithdrawStatus call
    wdMined,          \* withdraw id -> block that mined its transaction
    broadcasts,       \* withdraw id -> number of transactions sent for it
    wdRejected,       \* ids of the withdraws released by RejectWithdraw
    lastError,        \* the last error ApproveWithdraw/RejectWithdraw returned
    \* ---- block scanner ----
    node,             \* the RPC node's chain: tip, fork point, deposit blocks
    blocks,           \* rows of table blocks
    scanProc,         \* scanner -> position inside scanLoop / ScanChainBlock
    rpcFailures,      \* failed GetBlockByNumber calls so far
    manualScans,      \* ScanChainBlock calls so far
    receiptSkipped,   \* blocks whose receipt fetch failed and was skipped
    \* ---- keystore ----
    keystore,         \* rows of table keystore
    ksProc,           \* process -> position inside CreateKeystore
    \* ---- transfers sent from the hot wallet by rebalance and collect ----
    hotSent,          \* transactions the node accepted from the hot wallet
    sendProc,         \* service -> position inside its transfer
    \* ---- analyzer: the Transfer logs of one receipt ----
    analyzer,         \* the receipt's logs, the next log and the rows inserted
    \* ---- collect service ----
    collecting,       \* keys of the service's sync.Map: wallets being swept
    collectProc,      \* caller -> position inside a collection
    \* ---- scan service: starting the scanners ----
    scanners,         \* keys of service.scanners: chains with a chainScanner
    startCalls,       \* chain -> StartChainScan calls made so far
    startPending,     \* chain -> StartChainScan calls before scannersMu
    startStarting,    \* chain -> StartChainScan calls inside scanner.start
    scanLoops,        \* chain -> scanLoop goroutines running
    \* ---- rebalance service: one RebalanceForChain run ----
    rebal,            \* donors, receivers, loop indexes, needed, transfers made
    \* ---- long-running tasks and the root context ----
    ctxCancelled,     \* the root context is done
    tickerReady,      \* task -> its ticker channel holds a tick
    taskProc,         \* task -> position of its goroutine
    \* ---- seed manager ----
    seedHeap,         \* buffer -> its bytes (<<>>: not allocated)
    seedMgr,          \* manager.seed (0: nil) and manager.initialized
    seedMu,           \* manager.mu: the writer (0: none) and the readers
    seedProc,         \* caller -> position, returned buffer, result
    seedInstalled,    \* seeds installed by the Initialize calls that returned
    \* ---- RPCClient ----
    rpcBuilt,         \* NewRPCClient has returned the client
    rpcClients,       \* RPCClient.clients: endpoint -> connected (FALSE: nil)
    rpcCurrent,       \* RPCClient.current
    rpcReaders,       \* callers holding RPCClient.mu for reading
    rpcProc           \* caller -> position inside getClient

nonceVars == <<wallet_nonces, nonceLock, nonceProc, nonceLog, nonceOverlap>>
addrVars  == <<address_indexes, wallets, addrProc, addrReturned, addrFresh,
               addrOverlap, lastWalletCall>>
wdVars    == <<withdraws, wdLocked, wdProc, updProc, wdMined, broadcasts,
               wdRejected, lastError>>
depVars   == <<depProc, backfilled>>
scanVars  == <<node, blocks, scanProc, rpcFailures, manualScans,
               receiptSkipped>>
ksVars    == <<keystore, ksProc>>
sendVars  == <<hotSent, sendProc>>
coreVars  == <<nonceVars, addrVars, credits, transactions, wdVars, depVars,
               scanVars, ksVars, sendVars>>
collectVars == <<collecting, collectProc>>
startVars == <<scanners, startCalls, startPending, startStarting, scanLoops>>
taskVars  == <<ctxCancelled, tickerReady, taskProc>>
seedVars  == <<seedHeap, seedMgr, seedMu, seedProc, seedInstalled>>
rpcVars   == <<rpcBuilt, rpcClients, rpcCurrent, rpcReaders, rpcProc>>
svcVars   == <<analyzer, collectVars, startVars, rebal, taskVars, seedVars,
               rpcVars>>
vars      == <<coreVars, svcVars>>

\* What the operations of one component leave alone.
exceptNonce == <<addrVars, credits, transactions, wdVars, depVars, scanVars,
                 ksVars, sendVars, svcVars>>
exceptWalletCall == <<nonceLock, nonceProc, nonceLog, nonceOverlap, credits,
                      transactions, wdVars, depVars, scanVars, ksVars,
                      sendVars, svcVars>>
exceptAddr  == <<exceptWalletCall, lastWalletCall>>
wdNonce     == <<wallet_nonces, nonceLog>>
exceptAdmin == <<nonceLock, nonceProc, nonceOverlap, addrVars, transactions,
                 depVars, scanVars, ksVars, sendVars, svcVars>>
exceptWd    == <<exceptAdmin, lastError>>
exceptDep   == <<nonceVars, addrVars, wdVars, scanVars, ksVars, sendVars,
                 svcVars>>
exceptScan  == <<nonceVars, addrVars, wdVars, depVars, ksVars, sendVars,
                 svcVars>>
exceptKs    == <<nonceVars, addrVars, credits, transactions, wdVars, depVars,
                 scanVars, sendVars, svcVars>>
exceptAnalyzer == <<coreVars, collectVars, startVars, rebal, taskVars, seedVars,
    rpcVars>>
exceptCollect == <<coreVars, analyzer, startVars, rebal, taskVars, seedVars,
    rpcVars>>
exceptStart == <<coreVars, analyzer, collectVars, rebal, taskVars, seedVars,
    rpcVars>>
exceptRebal == <<coreVars, analyzer, collectVars, startVars, taskVars, seedVars,
    rpcVars>>
exceptTask == <<coreVars, analyzer, collectVars, startVars, rebal, seedVars,
    rpcVars>>
exceptSeed == <<coreVars, analyzer, collectVars, startVars, rebal, taskVars,
    rpcVars>>
exceptRpc == <<coreVars, analyzer, collectVars, startVars, rebal, taskVars,
    seedVars>>
exceptSend  == <<nonceLock, nonceProc, nonceOverlap, addrVars, credits,
                 transactions, wdVars, depVars, scanVars, ksVars, svcVars>>

NULL == "NULL"

(***************************************************************************)
(* Bounds of the model.                                                    *)
(***************************************************************************)
NumNonceProcs == 2      \* concurrent callers of GetNextNonce
MaxNonce == 3           \* no call starts once a stored nonce reached this
NumAddrProcs == 2       \* concurrent CreateWallet / CreateHotWallet calls
MaxAllocs == 3          \* no call starts after this many allocations
NumWdProcs == 2         \* concurrent RequestWithdraw / ApproveWithdraw calls
MaxWithdraws == 2       \* withdraw rows created
MaxDeposits == 1        \* deposit credits created
MaxAmount == 1          \* largest amount of a deposit or a withdraw
MaxLatest == 4          \* largest block number a caller reports as latest
MaxMinedBlock == 1      \* largest block that mines a withdraw transaction
ConfirmationBlocks == 2 \* chains.confirmation_blocks of the modelled chain
FinalizedBlocks == 3    \* chains.finalized_blocks of the modelled chain
MaxHeight == 5          \* highest block of the chain
BlockBatchSize == 2     \* the scanner's blockBatchSize
MaxRpcFailures == 1     \* failed block fetches
MaxManualScans == 1     \* ScanChainBlock calls
TokenDecimals == 2      \* tokens.decimals of the modelled tokens
MaxLogs == 3            \* logs in the receipt handed to the analyzer
rebalanceMinBalanceETH == 3
rebalanceMaxBalanceETH == 8
weiPerEther == 1             \* model units per ETH
rebalanceGasBufferWei == 2   \* the gas buffer, in model units
NumEndpoints == 2       \* configured RPC endpoints of a chain
NumRpcCallers == 2      \* concurrent callers of getClient
MaxRpcCalls == 2        \* getClient calls a caller completes
NumSeedProcs == 2       \* concurrent callers of the seed manager
MaxSeedCalls == 3       \* calls a caller of the seed manager completes
pbkdf2KeyLength == 2    \* bytes of a seed (64 in the source)
MaxStartCalls == 2      \* StartChainScan calls per chain
NumCollectors == 3      \* concurrent callers of the collect service
NumKsProcs == 3         \* CreateKeystore calls, concurrent or one after another

Chains == {1, 2}
Users == {"u1", "u2"}
Devices == {NULL, "dev1"}
IndexRange == 0..(MaxAllocs + NumAddrProcs)

(***************************************************************************)
(* Hot wallets: wallet_nonces and GetNextNonce                             *)
(***************************************************************************)
NonceProcs == 1..NumNonceProcs
\* An address is identified by the index it is derived from.
NonceKeys == IndexRange \X Chains
HotKeys == {<<0, 1>>, <<1, 1>>}

NonceIdle == [pc |-> "idle", key |-> <<0, 1>>, cur |-> 0, seen |-> 0]

InitNonce ==
    /\ wallet_nonces = {}
    /\ nonceLock = [k \in NonceKeys |-> {}]
    /\ nonceProc = [p \in NonceProcs |-> NonceIdle]
    /\ nonceLog = [k \in NonceKeys |-> <<>>]
    /\ nonceOverlap = FALSE

HasNonceRow(k) == \E r \in wallet_nonces : r.key = k
StoredNonce(k) == (CHOOSE r \in wallet_nonces : r.key = k).nonce

\* CreateHotWallet seeds the wallet_nonces row of a new hot wallet with 0.
SeedNonceRow(rows, k) == rows \cup {[key |-> k, nonce |-> 0]}

HotWalletCreated(k) ==
    /\ ~HasNonceRow(k)
    /\ wallet_nonces' = SeedNonceRow(wallet_nonces, k)
    /\ UNCHANGED <<nonceLock, nonceProc, nonceLog, nonceOverlap>>
    /\ UNCHANGED exceptNonce

\* SELECT ... FOR UPDATE waits while another transaction holds the row.
NonceRowLockFree_NoForUpdate(k) == TRUE
NonceRowLockFree(k) == nonceLock[k] = {}

\* BeginTx and the issue of the locking select.
GetNextNonce_Begin(p, k) ==
    /\ nonceProc[p].pc = "idle"
    /\ HasNonceRow(k)
    /\ StoredNonce(k) < MaxNonce
    /\ nonceProc' = [nonceProc EXCEPT ![p] =
          [pc |-> "waiting", key |-> k, cur |-> 0, seen |-> Len(nonceLog[k])]]
    /\ UNCHANGED <<wallet_nonces, nonceLock, nonceLog, nonceOverlap>>
    /\ UNCHANGED exceptNonce

\* The locking select returns: the row is locked and its committed value read.
GetNextNonce_Lock(p) ==
    LET k == nonceProc[p].key IN
    /\ nonceProc[p].pc = "waiting"
    /\ NonceRowLockFree(k)
    /\ nonceLock' = [nonceLock EXCEPT ![k] = @ \cup {p}]
    /\ nonceProc' = [nonceProc EXCEPT ![p].pc = "locked",
                                      ![p].cur = StoredNonce(k)]
    /\ UNCHANGED <<wallet_nonces, nonceLog, nonceOverlap>>
    /\ UNCHANGED exceptNonce

\* Update nonce = current + 1, commit, return the current value.
GetNextNonce_Commit(p) ==
    LET k == nonceProc[p].key
        cur == nonceProc[p].cur IN
    /\ nonceProc[p].pc = "locked"
    /\ wallet_nonces' = {IF r.key = k THEN [r EXCEPT !.nonce = cur + 1] ELSE r :
                            r \in wallet_nonces}
    /\ nonceLock' = [nonceLock EXCEPT ![k] = @ \ {p}]
    /\ nonceLog' = [nonceLog EXCEPT ![k] = Append(@, cur)]
    /\ nonceOverlap' = (nonceOverlap \/ Len(nonceLog[k]) > nonceProc[p].seen)
    /\ nonceProc' = [nonceProc EXCEPT ![p] = NonceIdle]
    /\ UNCHANGED exceptNonce

\* The update or the commit fails: the deferred Rollback releases the lock.
GetNextNonce_Fail(p) ==
    LET k == nonceProc[p].key IN
    /\ nonceProc[p].pc = "locked"
    /\ nonceLock' = [nonceLock EXCEPT ![k] = @ \ {p}]
    /\ nonceProc' = [nonceProc EXCEPT ![p] = NonceIdle]
    /\ UNCHANGED <<wallet_nonces, nonceLog, nonceOverlap>>
    /\ UNCHANGED exceptNonce

NextNonce ==
    \/ \E k \in HotKeys : HotWalletCreated(k)
    \/ \E p \in NonceProcs, k \in HotKeys : GetNextNonce_Begin(p, k)
    \/ \E p \in NonceProcs : GetNextNonce_Lock(p)
    \/ \E p \in NonceProcs : GetNextNonce_Commit(p)
    \/ \E p \in NonceProcs : GetNextNonce_Fail(p)

(***************************************************************************)
(* Address service: GetNextAddressIndex; CreateWallet and CreateHotWallet  *)
(***************************************************************************)
AddrProcs == 1..NumAddrProcs
AddrIdle == [pc |-> "idle", kind |-> "user", user |-> "u1", chain |-> 1,
             device |-> NULL, row |-> 0, reloaded |-> 0, index |-> 0]

NoWalletCall == [user |-> NULL, chain |-> 0, error |-> NULL]

InitAddr ==
    /\ address_indexes = {}
    /\ wallets = {}
    /\ addrProc = [p \in AddrProcs |-> AddrIdle]
    /\ addrReturned = <<>>
    /\ addrFresh = TRUE
    /\ addrOverlap = FALSE
    /\ lastWalletCall = NoWalletCall

\* deviceName "" is stored as SQL NULL, any other name as itself.
\* WHERE chain_type = 'evm' AND device_name = $2 (IS NULL for a null name).
MatchingIndexRows(device) == {r \in address_indexes : r.device_name = device}

\* UNIQUE (chain_type, device_name): SQL NULLs never compare equal, so the
\* constraint rejects a second row only for a non-null device name.
IndexRowUniqueViolation(device) ==
    device # NULL /\ MatchingIndexRows(device) # {}

\* UNIQUE (address, chain_id) on wallets; the address is a function of the index.
WalletUniqueViolation(index, chain) ==
    \E w \in wallets : w.address_index = index /\ w.chain_id = chain

\* GetNextAddressIndex returns index to its caller.
ReturnIndex(p, index, next) ==
    /\ addrReturned' = Append(addrReturned, index)
    /\ addrFresh' = (addrFresh /\ \A w \in wallets : index > w.address_index)
    /\ addrProc' = [addrProc EXCEPT ![p].pc = next, ![p].index = index]

OtherCallInProgress(p) == \E q \in AddrProcs : q # p /\ addrProc[q].pc # "idle"

\* CreateWallet: the chain is active, the (user, chain) has no wallet yet, the
\* seed is initialized; GetNextAddressIndex("evm", "") is entered.
CreateWallet_Start(p, user, chain) ==
    /\ addrProc[p].pc = "idle"
    /\ Len(addrReturned) < MaxAllocs
    /\ ~ \E w \in wallets : w.user_id = user /\ w.chain_id = chain
    /\ addrProc' = [addrProc EXCEPT ![p] =
          [AddrIdle EXCEPT !.pc = "find", !.kind = "user", !.user = user,
                           !.chain = chain, !.device = NULL]]
    /\ addrOverlap' = (addrOverlap \/ OtherCallInProgress(p))
    /\ UNCHANGED <<address_indexes, wallets, addrReturned, addrFresh>>
    /\ UNCHANGED <<wallet_nonces, exceptAddr>>

\* CreateWallet for a (user, chain) that has a wallet: the stored wallet is
\* returned with a nil error.
CreateWallet_Existing(p, user, chain) ==
    /\ addrProc[p].pc = "idle"
    /\ \E w \in wallets : w.user_id = user /\ w.chain_id = chain
    /\ lastWalletCall' = [user |-> user, chain |-> chain, error |-> NULL]
    /\ UNCHANGED <<address_indexes, wallets, addrProc, addrReturned, addrFresh,
                   addrOverlap, wallet_nonces, exceptWalletCall>>

\* CreateHotWallet: the seed is initialized;
\* GetNextAddressIndex("evm", deviceName) is entered.
CreateHotWallet_Start(p, user, chain, device) ==
    /\ addrProc[p].pc = "idle"
    /\ Len(addrReturned) < MaxAllocs
    /\ addrProc' = [addrProc EXCEPT ![p] =
          [AddrIdle EXCEPT !.pc = "find", !.kind = "hot", !.user = user,
                           !.chain = chain, !.device = device]]
    /\ addrOverlap' = (addrOverlap \/ OtherCallInProgress(p))
    /\ UNCHANGED <<address_indexes, wallets, addrReturned, addrFresh>>
    /\ UNCHANGED <<wallet_nonces, exceptAddr>>

\* The lookup of the index row, outside any transaction.  One() returns any
\* matching row; sql.ErrNoRows leads to the insert branch.
GetNextAddressIndex_Find(p) ==
    /\ addrProc[p].pc = "find"
    /\ \/ /\ MatchingIndexRows(addrProc[p].device) = {}
          /\ addrProc' = [addrProc EXCEPT ![p].pc = "insert"]
       \/ \E r \in MatchingIndexRows(addrProc[p].device) :
             addrProc' = [addrProc EXCEPT ![p].pc = "reload", ![p].row = r.id]
    /\ UNCHANGED <<address_indexes, wallets, addrReturned, addrFresh>>
    /\ UNCHANGED <<addrOverlap, wallet_nonces, exceptAddr>>

\* No row was found: insert one with current_index 0 and return 0.
GetNextAddressIndex_Insert(p) ==
    /\ addrProc[p].pc = "insert"
    /\ IF IndexRowUniqueViolation(addrProc[p].device)
       THEN /\ addrProc' = [addrProc EXCEPT ![p] = AddrIdle]
            /\ UNCHANGED <<address_indexes, addrReturned, addrFresh>>
       ELSE /\ address_indexes' = address_indexes \cup
                  {[id |-> Cardinality(address_indexes) + 1,
                    device_name |-> addrProc[p].device, current_index |-> 0]}
            /\ ReturnIndex(p, 0, "save")
    /\ UNCHANGED <<wallets, addrOverlap, wallet_nonces, exceptAddr>>

\* Inside db.WithTransaction: Reload reads the row by primary key.
GetNextAddressIndex_Reload(p) ==
    /\ addrProc[p].pc = "reload"
    /\ \E r \in address_indexes :
          /\ r.id = addrProc[p].row
          /\ addrProc' = [addrProc EXCEPT ![p].pc = "update",
                                          ![p].reloaded = r.current_index]
    /\ UNCHANGED <<address_indexes, wallets, addrReturned, addrFresh>>
    /\ UNCHANGED <<addrOverlap, wallet_nonces, exceptAddr>>

\* db.WithTransaction runs the closure in a serializable transaction that is
\* retried on contention: the update of a row changed since it was read fails.
SerializationConflict(p) ==
    \E r \in address_indexes :
       r.id = addrProc[p].row /\ r.current_index # addrProc[p].reloaded

\* nextIndex = CurrentIndex + 1; Update; commit; return nextIndex.
GetNextAddressIndex_Update(p) ==
    /\ addrProc[p].pc = "update"
    /\ IF SerializationConflict(p)
       THEN /\ addrProc' = [addrProc EXCEPT ![p].pc = "reload"]
            /\ UNCHANGED <<address_indexes, addrReturned, addrFresh>>
       ELSE /\ address_indexes' =
                  {IF r.id = addrProc[p].row
                   THEN [r EXCEPT !.current_index = addrProc[p].reloaded + 1]
                   ELSE r : r \in address_indexes}
            /\ ReturnIndex(p, addrProc[p].reloaded + 1, "save")
    /\ UNCHANGED <<wallets, addrOverlap, wallet_nonces, exceptAddr>>

\* The wallet row built by CreateWallet (type user) or CreateHotWallet (hot).
NewWallet(p) ==
    [user_id |-> addrProc[p].user, chain_id |-> addrProc[p].chain,
     address_index |-> addrProc[p].index, wallet_type |-> addrProc[p].kind]

\* The insert of the wallet row; CreateHotWallet inserts the wallet_nonces row
\* in the same transaction.  A unique violation fails the call; the index
\* allocated for it stays allocated.
CreateWallet_Save(p) ==
    /\ addrProc[p].pc = "save"
    /\ IF WalletUniqueViolation(addrProc[p].index, addrProc[p].chain)
       THEN UNCHANGED <<wallets, wallet_nonces>>
       ELSE /\ wallets' = wallets \cup {NewWallet(p)}
            /\ wallet_nonces' =
                  IF addrProc[p].kind = "hot"
                  THEN SeedNonceRow(wallet_nonces,
                                    <<addrProc[p].index, addrProc[p].chain>>)
                  ELSE wallet_nonces
    /\ addrProc' = [addrProc EXCEPT ![p] = AddrIdle]
    /\ UNCHANGED <<address_indexes, addrReturned, addrFresh, addrOverlap>>
    /\ UNCHANGED exceptAddr

NextAddr ==
    \/ \E p \in AddrProcs, u \in Users, c \in Chains :
          CreateWallet_Start(p, u, c)
    \/ \E p \in AddrProcs, u \in Users, c \in Chains, d \in Devices :
          CreateHotWallet_Start(p, u, c, d)
    \/ \E p \in AddrProcs : GetNextAddressIndex_Find(p)
    \/ \E p \in AddrProcs : GetNextAddressIndex_Insert(p)
    \/ \E p \in AddrProcs : GetNextAddressIndex_Reload(p)
    \/ \E p \in AddrProcs : GetNextAddressIndex_Update(p)
    \/ \E p \in AddrProcs : CreateWallet_Save(p)

\* CreateWallet alone, calls on an existing (user, chain) included.
NextCreateWallet ==
    \/ \E p \in AddrProcs, u \in Users, c \in Chains :
          CreateWallet_Start(p, u, c)
    \/ \E p \in AddrProcs, u \in Users, c \in Chains :
          CreateWallet_Existing(p, u, c)
    \/ \E p \in AddrProcs : GetNextAddressIndex_Find(p)
    \/ \E p \in AddrProcs : GetNextAddressIndex_Insert(p)
    \/ \E p \in AddrProcs : GetNextAddressIndex_Reload(p)
    \/ \E p \in AddrProcs : GetNextAddressIndex_Update(p)
    \/ \E p \in AddrProcs : CreateWallet_Save(p)

(***************************************************************************)
(* Ledger: the tokens table and the credits table                          *)
(***************************************************************************)
\* The tokens registered on chain 1: the native token and one ERC-20.
TokenRows ==
    {[id |-> 1, chain_id |-> 1, is_native |-> TRUE, token_address |-> NULL],
     [id |-> 2, chain_id |-> 1, is_native |-> FALSE, token_address |-> "tokA"]}
TokenIds == {t.id : t \in TokenRows}
TokenById(id) == CHOOSE t \in TokenRows : t.id = id

RECURSIVE SumAmounts(_)
SumAmounts(rows) ==
    IF rows = {} THEN 0
    ELSE LET r == CHOOSE x \in rows : TRUE
         IN r.amount + SumAmounts(rows \ {r})

\* SELECT COALESCE(SUM(amount), 0) FROM credits WHERE user_id, chain_id,
\* token_id AND (status = 'finalized' OR (credit_type = 'withdraw' AND
\* status IN ('pending', 'processing', 'frozen', 'signing'))).
GetAvailableBalance(user, chain, token) ==
    SumAmounts({c \in credits :
        /\ c.user_id = user /\ c.chain_id = chain /\ c.token_id = token
        /\ \/ c.status = "finalized"
           \/ /\ c.credit_type = "withdraw"
              /\ c.status \in {"pending", "processing", "frozen", "signing"}})

NextCreditId == Cardinality(credits) + 1

\* A nullable integer column holds {} for SQL NULL and {n} for the value n.

\* The credit deposit.CreateCredit inserts for a finalized deposit.
DepositCredit(user, token, amount, ref, block, eventIndex) ==
    [id |-> NextCreditId, user_id |-> user, token_id |-> token,
     chain_id |-> TokenById(token).chain_id, amount |-> amount,
     credit_type |-> "deposit", reference_id |-> ref,
     reference_type |-> "blockchain_tx", status |-> "finalized",
     block_number |-> {block}, event_index |-> {eventIndex}]

(***************************************************************************)
(* Withdraw service                                                        *)
(***************************************************************************)
WdProcs == 1..NumWdProcs
WdIdle == [pc |-> "idle", op |-> "handler", w |-> 0, user |-> "u1",
           token |-> 1, amount |-> 0, nonce |-> 0]
UpdIdle == [pc |-> "idle", latest |-> 0, list |-> {}]
NoError == [op |-> "none", w |-> 0, status |-> NULL]

InitLedger == credits = {} /\ transactions = {}

InitWithdraw ==
    /\ withdraws = {}
    /\ wdLocked = {}
    /\ wdProc = [p \in WdProcs |-> WdIdle]
    /\ updProc = UpdIdle
    /\ wdMined = {}
    /\ broadcasts = [wid \in 1..MaxWithdraws |-> 0]
    /\ wdRejected = {}
    /\ lastError = NoError

WithdrawIds == {w.id : w \in withdraws}
WithdrawById(id) == CHOOSE w \in withdraws : w.id = id
SetWithdrawStatus(id, status) ==
    {IF w.id = id THEN [w EXCEPT !.status = status] ELSE w : w \in withdraws}

\* A deposit of the user reaches the ledger as a finalized credit.
DepositCredited(user, token, amount) ==
    /\ Cardinality({c \in credits : c.credit_type = "deposit"}) < MaxDeposits
    /\ credits' = credits \cup
          {DepositCredit(user, token, amount, NextCreditId, 1, 0)}
    /\ UNCHANGED <<wdVars, wdNonce, exceptWd>>

\* RequestWithdraw, amount > 0 and the token exists: the balance precheck,
\* made before the transaction is opened.
RequestWithdraw_Check(p, user, token, amount) ==
    /\ wdProc[p].pc = "idle"
    /\ Cardinality(withdraws) < MaxWithdraws
    /\ amount > 0
    /\ GetAvailableBalance(user, TokenById(token).chain_id, token) >= amount
    /\ wdProc' = [wdProc EXCEPT ![p] =
          [WdIdle EXCEPT !.pc = "req_insert", !.user = user, !.token = token,
                         !.amount = amount]]
    /\ UNCHANGED <<withdraws, wdLocked, updProc, wdMined, broadcasts,
                   wdRejected, credits, wdNonce, exceptWd>>

\* credit.Amount = -req.Amount
WithdrawCreditAmount_Positive(amount) == amount
WithdrawCreditAmount(amount) == 0 - amount

\* The frozen credit paired with a withdraw.
WithdrawCredit(p, wid) ==
    [id |-> NextCreditId, user_id |-> wdProc[p].user,
     token_id |-> wdProc[p].token,
     chain_id |-> TokenById(wdProc[p].token).chain_id,
     amount |-> WithdrawCreditAmount(wdProc[p].amount),
     credit_type |-> "withdraw", reference_id |-> wid,
     reference_type |-> "withdraw", status |-> "frozen",
     block_number |-> {}, event_index |-> {0}]

\* The withdraw row RequestWithdraw inserts.
NewWithdraw(p, wid) ==
    [id |-> wid, user_id |-> wdProc[p].user, token_id |-> wdProc[p].token,
     amount |-> wdProc[p].amount, fee |-> 0,
     status |-> "user_withdraw_request", tx_hash |-> NULL, nonce |-> {}]

\* A table whose insert had been made outside the transaction.
AfterRollback_Autocommit(rows, inserted) == rows \cup {inserted}

\* A table after the rollback of a transaction that had inserted a row.
AfterRollback(rows, inserted) == rows

\* One transaction inserts the withdraw row and its frozen credit; the HTTP
\* handler then starts ProcessWithdraw on the new withdraw in the background.
RequestWithdraw_Insert(p) ==
    LET wid == Cardinality(withdraws) + 1 IN
    /\ wdProc[p].pc = "req_insert"
    /\ Cardinality(withdraws) < MaxWithdraws
    /\ \E uw \in wallets : /\ uw.user_id = wdProc[p].user
                            /\ uw.chain_id = TokenById(wdProc[p].token).chain_id
    /\ withdraws' = withdraws \cup {NewWithdraw(p, wid)}
    /\ credits' = credits \cup {WithdrawCredit(p, wid)}
    /\ wdProc' = [wdProc EXCEPT ![p] = [WdIdle EXCEPT !.pc = "proc_begin",
                                                      !.w = wid]]
    /\ UNCHANGED <<wdLocked, updProc, wdMined, broadcasts, wdRejected,
                   wdNonce, exceptWd>>

\* The wallet lookup, the credit insert or the commit fails after the withdraw
\* row was inserted (for one, the user has no wallet on the chain): the
\* transaction is rolled back and the handler returns the error.
RequestWithdraw_Fail(p) ==
    /\ wdProc[p].pc = "req_insert"
    /\ withdraws' = AfterRollback(withdraws,
                                  NewWithdraw(p, Cardinality(withdraws) + 1))
    /\ wdProc' = [wdProc EXCEPT ![p] = WdIdle]
    /\ UNCHANGED <<wdLocked, updProc, wdMined, broadcasts,
                   wdRejected, credits, wdNonce, exceptWd>>

\* A status check that lets a failed withdraw through as well.
ApproveStatusOk_OrFailed(w) ==
    w.status \in {"user_withdraw_request", "failed"}

\* The status check of ApproveWithdraw.
ApproveStatusOk(w) == w.status = "user_withdraw_request"

\* ApproveWithdraw: lock the row, require user_withdraw_request, commit the
\* check (the lock is released), then call ProcessWithdraw.
ApproveWithdraw_Check(p, wid) ==
    /\ wdProc[p].pc = "idle"
    /\ wid \in WithdrawIds
    /\ wid \notin wdLocked
    /\ ApproveStatusOk(WithdrawById(wid))
    /\ wdProc' = [wdProc EXCEPT ![p] =
          [WdIdle EXCEPT !.pc = "proc_begin", !.op = "approve", !.w = wid]]
    /\ UNCHANGED <<withdraws, wdLocked, updProc, wdMined, broadcasts,
                   wdRejected, credits, wdNonce, exceptWd>>

\* ApproveWithdraw on another status: the error 'withdraw status is X,
\* expected user_withdraw_request' is returned and the transaction is rolled
\* back.
ApproveWithdraw_WrongStatus(p, wid) ==
    /\ wdProc[p].pc = "idle"
    /\ wid \in WithdrawIds
    /\ wid \notin wdLocked
    /\ ~ApproveStatusOk(WithdrawById(wid))
    /\ lastError' = [op |-> "approve", w |-> wid,
                     status |-> WithdrawById(wid).status]
    /\ UNCHANGED <<withdraws, wdLocked, wdProc, updProc, wdMined, broadcasts,
                   wdRejected, credits, wdNonce, exceptAdmin>>

\* Where a failed ProcessWithdraw returns to: ApproveWithdraw calls
\* updateWithdrawStatusOnError, the background call of the handler only logs.
AfterProcessError(p) == IF wdProc[p].op = "approve" THEN "on_error" ELSE "idle"

\* ProcessWithdraw: SELECT ... FOR UPDATE of the withdraw row, then the status
\* check; a status other than user_withdraw_request is an error.
ProcessWithdraw_Lock(p) ==
    LET wid == wdProc[p].w IN
    /\ wdProc[p].pc = "proc_begin"
    /\ wid \notin wdLocked
    /\ IF WithdrawById(wid).status = "user_withdraw_request"
       THEN /\ wdLocked' = wdLocked \cup {wid}
            /\ wdProc' = [wdProc EXCEPT ![p].pc = "proc_locked"]
       ELSE /\ wdProc' = [wdProc EXCEPT ![p].pc = AfterProcessError(p)]
            /\ UNCHANGED wdLocked
    /\ UNCHANGED <<withdraws, updProc, wdMined, broadcasts, wdRejected,
                   credits, wdNonce, exceptWd>>

\* GetHotWallet: the hot wallets of the chain; One() returns any of them.
HotWallets(chain) ==
    {hw \in wallets : hw.chain_id = chain /\ hw.wallet_type = "hot"}

\* GetNextNonce for the hot wallet, a transaction of its own under the lock of
\* the wallet_nonces row: the stored value is returned and incremented.  No
\* nonce is taken once the stored value reached MaxNonce.
ProcessWithdraw_Nonce(p) ==
    /\ wdProc[p].pc = "proc_locked"
    /\ \E hw \in HotWallets(TokenById(WithdrawById(wdProc[p].w).token_id).chain_id) :
          LET k == <<hw.address_index, hw.chain_id>> IN
          /\ HasNonceRow(k)
          /\ StoredNonce(k) < MaxNonce
          /\ NonceRowLockFree(k)
          /\ wallet_nonces' = {IF r.key = k THEN [r EXCEPT !.nonce = @ + 1]
                                            ELSE r : r \in wallet_nonces}
          /\ nonceLog' = [nonceLog EXCEPT ![k] = Append(@, StoredNonce(k))]
          /\ wdProc' = [wdProc EXCEPT ![p].pc = "proc_nonce",
                                      ![p].nonce = StoredNonce(k)]
    /\ UNCHANGED <<withdraws, wdLocked, updProc, wdMined, broadcasts,
                   wdRejected, credits, exceptWd>>

\* Any step before the broadcast fails (hot wallet, RPC client, fee data,
\* hot-wallet balance, nonce, signing, SendTransaction): rollback.  A nonce
\* taken before the failure stays taken.
ProcessWithdraw_Fail(p) ==
    /\ wdProc[p].pc \in {"proc_locked", "proc_nonce"}
    /\ wdLocked' = wdLocked \ {wdProc[p].w}
    /\ wdProc' = [wdProc EXCEPT ![p].pc = AfterProcessError(p)]
    /\ UNCHANGED <<withdraws, updProc, wdMined, broadcasts, wdRejected,
                   credits, wdNonce, exceptWd>>

\* The signed transaction is accepted by the node.
ProcessWithdraw_Broadcast(p) ==
    /\ wdProc[p].pc = "proc_nonce"
    /\ broadcasts' = [broadcasts EXCEPT ![wdProc[p].w] = @ + 1]
    /\ wdProc' = [wdProc EXCEPT ![p].pc = "proc_sent"]
    /\ UNCHANGED <<withdraws, wdLocked, updProc, wdMined, wdRejected,
                   credits, wdNonce, exceptWd>>

\* status = pending with tx_hash, from_address and nonce; commit.
ProcessWithdraw_Commit(p) ==
    LET wid == wdProc[p].w IN
    /\ wdProc[p].pc = "proc_sent"
    /\ withdraws' = {IF w.id = wid
                     THEN [w EXCEPT !.status = "pending", !.tx_hash = "sent",
                                     !.nonce = {wdProc[p].nonce}]
                     ELSE w : w \in withdraws}
    /\ wdLocked' = wdLocked \ {wid}
    /\ wdProc' = [wdProc EXCEPT ![p] = WdIdle]
    /\ UNCHANGED <<updProc, wdMined, broadcasts, wdRejected, credits,
                   wdNonce, exceptWd>>

\* The update or the commit after the broadcast fails: rollback.
ProcessWithdraw_CommitFail(p) ==
    /\ wdProc[p].pc = "proc_sent"
    /\ wdLocked' = wdLocked \ {wdProc[p].w}
    /\ wdProc' = [wdProc EXCEPT ![p].pc = AfterProcessError(p)]
    /\ UNCHANGED <<withdraws, updProc, wdMined, broadcasts, wdRejected,
                   credits, wdNonce, exceptWd>>

\* updateWithdrawStatusOnError: lock the row, set status failed whatever the
\* status is, commit.
UpdateWithdrawStatusOnError(p) ==
    LET wid == wdProc[p].w IN
    /\ wdProc[p].pc = "on_error"
    /\ wid \notin wdLocked
    /\ withdraws' = SetWithdrawStatus(wid, "failed")
    /\ wdProc' = [wdProc EXCEPT ![p] = WdIdle]
    /\ UNCHANGED <<wdLocked, updProc, wdMined, broadcasts, wdRejected,
                   credits, wdNonce, exceptWd>>

\* The frozen credits of a withdraw.
FrozenCredits(wid) ==
    {c \in credits : /\ c.reference_id = wid /\ c.reference_type = "withdraw"
                     /\ c.status = "frozen"}

\* The status RejectWithdraw would leave on the credits if it kept the hold.
ReleasedCreditStatus_Frozen == "frozen"

\* The status RejectWithdraw writes on the frozen credits.
ReleasedCreditStatus == "failed"

\* The two checks of RejectWithdraw: frozen credits exist, and the status is
\* user_withdraw_request or failed.
RejectAllowed(wid) ==
    /\ FrozenCredits(wid) # {}
    /\ WithdrawById(wid).status \in {"user_withdraw_request", "failed"}

\* RejectWithdraw, one transaction under the row lock: frozen credits exist,
\* the status is user_withdraw_request or failed; the withdraw and every
\* frozen credit of it become failed.
RejectWithdraw(wid) ==
    /\ wid \in WithdrawIds
    /\ wid \notin wdLocked
    /\ RejectAllowed(wid)
    /\ withdraws' = SetWithdrawStatus(wid, "failed")
    /\ credits' = {IF c \in FrozenCredits(wid)
                   THEN [c EXCEPT !.status = ReleasedCreditStatus] ELSE c :
                   c \in credits}
    /\ wdRejected' = wdRejected \cup {wid}
    /\ UNCHANGED <<wdLocked, wdProc, updProc, wdMined, broadcasts, wdNonce, exceptWd>>

\* RejectWithdraw when a check fails: 'withdraw has no frozen credits to
\* reject' or 'withdraw status is X, can only reject ...'; rollback.
RejectWithdraw_Error(wid) ==
    /\ wid \in WithdrawIds
    /\ wid \notin wdLocked
    /\ ~RejectAllowed(wid)
    /\ lastError' = [op |-> "reject", w |-> wid,
                     status |-> WithdrawById(wid).status]
    /\ UNCHANGED <<withdraws, wdLocked, wdProc, updProc, wdMined, broadcasts,
                   wdRejected, credits, wdNonce, exceptAdmin>>

\* The chain includes a broadcast withdraw transaction in a block.
WithdrawMined(wid, block) ==
    /\ wid \in WithdrawIds
    /\ broadcasts[wid] > 0
    /\ ~ \E m \in wdMined : m.id = wid
    /\ wdMined' = wdMined \cup {[id |-> wid, block |-> block, ok |-> TRUE]}
    /\ UNCHANGED <<withdraws, wdLocked, wdProc, updProc, broadcasts,
                   wdRejected, credits, wdNonce, exceptWd>>

\* The transaction of a broadcast withdraw is mined and reverts: its receipt
\* has status 0.
WithdrawMinedFailed(wid, block) ==
    /\ wid \in WithdrawIds
    /\ broadcasts[wid] > 0
    /\ ~ \E m \in wdMined : m.id = wid
    /\ wdMined' = wdMined \cup {[id |-> wid, block |-> block, ok |-> FALSE]}
    /\ UNCHANGED <<withdraws, wdLocked, wdProc, updProc, broadcasts,
                   wdRejected, credits, wdNonce, exceptWd>>

\* createTransactionRecordIfConfirmed: the status of the transactions row
\* made from the receipt.
ReceiptTransactionStatus(m) == IF m.ok THEN "confirmed" ELSE "failed"

\* UpdateWithdrawStatus(chain, latest): the withdraws in pending or processing
\* with a tx_hash are loaded, without a lock.
UpdateWithdrawStatus_Load(latest) ==
    LET list == {w \in withdraws : /\ w.status \in {"pending", "processing"}
                                   /\ w.tx_hash # NULL} IN
    /\ updProc.pc = "idle"
    /\ list # {}
    /\ updProc' = [pc |-> "iter", latest |-> latest, list |-> list]
    /\ UNCHANGED <<withdraws, wdLocked, wdProc, wdMined, broadcasts,
                   wdRejected, credits, wdNonce, exceptWd>>

\* A status table that asks for one confirmation more.
WithdrawStatusFor_Late(conf) ==
    IF conf > ConfirmationBlocks THEN "confirmed"
    ELSE IF conf > 0 THEN "processing" ELSE "pending"

\* confirmed from confirmation_blocks confirmations on, processing from one.
WithdrawStatusFor(conf) ==
    IF conf >= ConfirmationBlocks THEN "confirmed"
    ELSE IF conf > 0 THEN "processing" ELSE "pending"

\* One iteration of the loop over the loaded withdraws: no receipt yet or a
\* negative confirmation count skips the withdraw; otherwise the status read at
\* load time is compared with the new one and the new one written if different.
UpdateWithdrawStatus_Step ==
    \E w \in updProc.list :
    LET rest == updProc.list \ {w}
        mined == {m \in wdMined : m.id = w.id}
        block == (CHOOSE m \in mined : TRUE).block
        conf == updProc.latest - block IN
    /\ updProc.pc = "iter"
    /\ w.id \notin wdLocked
    /\ updProc' = IF rest = {} THEN UpdIdle ELSE [updProc EXCEPT !.list = rest]
    /\ IF mined # {} /\ conf >= 0 /\ w.status # WithdrawStatusFor(conf)
       THEN withdraws' = SetWithdrawStatus(w.id, WithdrawStatusFor(conf))
       ELSE UNCHANGED withdraws
    /\ UNCHANGED <<wdLocked, wdProc, wdMined, broadcasts, wdRejected,
                   credits, wdNonce, exceptWd>>

NextWithdraw ==
    \/ \E u \in Users, t \in TokenIds, a \in 1..MaxAmount :
          DepositCredited(u, t, a)
    \/ \E p \in WdProcs, u \in Users, t \in TokenIds, a \in 1..MaxAmount :
          RequestWithdraw_Check(p, u, t, a)
    \/ \E p \in WdProcs : RequestWithdraw_Insert(p)
    \/ \E p \in WdProcs : RequestWithdraw_Fail(p)
    \/ \E p \in WdProcs, wid \in 1..MaxWithdraws : ApproveWithdraw_Check(p, wid)
    \/ \E p \in WdProcs : ProcessWithdraw_Lock(p)
    \/ \E p \in WdProcs : ProcessWithdraw_Nonce(p)
    \/ \E p \in WdProcs : ProcessWithdraw_Fail(p)
    \/ \E p \in WdProcs : ProcessWithdraw_Broadcast(p)
    \/ \E p \in WdProcs : ProcessWithdraw_Commit(p)
    \/ \E p \in WdProcs : ProcessWithdraw_CommitFail(p)
    \/ \E p \in WdProcs : UpdateWithdrawStatusOnError(p)
    \/ \E wid \in 1..MaxWithdraws : RejectWithdraw(wid)
    \/ \E wid \in 1..MaxWithdraws, b \in 1..MaxMinedBlock : WithdrawMined(wid, b)
    \/ \E latest \in 0..MaxLatest : UpdateWithdrawStatus_Load(latest)
    \/ UpdateWithdrawStatus_Step

\* The withdraw service as the user and the administrator drive it, with the
\* calls that return an error; the status updater is left out.
NextAdmin ==
    \/ \E u \in Users, t \in TokenIds, a \in 1..MaxAmount :
          DepositCredited(u, t, a)
    \/ \E p \in WdProcs, u \in Users, t \in TokenIds, a \in 1..MaxAmount :
          RequestWithdraw_Check(p, u, t, a)
    \/ \E p \in WdProcs : RequestWithdraw_Insert(p)
    \/ \E p \in WdProcs : RequestWithdraw_Fail(p)
    \/ \E p \in WdProcs, wid \in 1..MaxWithdraws : ApproveWithdraw_Check(p, wid)
    \/ \E p \in WdProcs, wid \in 1..MaxWithdraws :
          ApproveWithdraw_WrongStatus(p, wid)
    \/ \E p \in WdProcs : ProcessWithdraw_Lock(p)
    \/ \E p \in WdProcs : ProcessWithdraw_Nonce(p)
    \/ \E p \in WdProcs : ProcessWithdraw_Fail(p)
    \/ \E p \in WdProcs : ProcessWithdraw_Broadcast(p)
    \/ \E p \in WdProcs : ProcessWithdraw_Commit(p)
    \/ \E p \in WdProcs : ProcessWithdraw_CommitFail(p)
    \/ \E p \in WdProcs : UpdateWithdrawStatusOnError(p)
    \/ \E wid \in 1..MaxWithdraws : RejectWithdraw(wid)
    \/ \E wid \in 1..MaxWithdraws : RejectWithdraw_Error(wid)

(***************************************************************************)
(* Deposit service: the confirmation processor and the finalized backfill  *)
(***************************************************************************)
\* The transfers the chain can carry: a native transfer and two ERC-20
\* Transfer logs, one of a registered token and one of a token without a row
\* in tokens.  Addresses are the indices they derive from.
ChainTxs ==
    {[hash |-> 1, to_addr |-> 0, token_addr |-> NULL, amount |-> 1],
     [hash |-> 2, to_addr |-> 0, token_addr |-> "tokA", amount |-> 1],
     [hash |-> 3, to_addr |-> 1, token_addr |-> "tokB", amount |-> 1]}

DepProcs == {"hook", "worker"}
DepIdle == [pc |-> "idle", latest |-> 0, list |-> {}, cur |-> 0,
            status |-> NULL, seen |-> {}]

InitDeposit ==
    /\ depProc = [p \in DepProcs |-> DepIdle]
    /\ backfilled = {}

\* SELECT COUNT(*) FROM wallets WHERE chain_id AND LOWER(address) = ...
IsUserAddress(chain, addr) ==
    \E w \in wallets : w.chain_id = chain /\ w.address_index = addr

\* SELECT COUNT(*) FROM transactions WHERE chain_id AND LOWER(tx_hash) = ...;
\* the status of the row is not looked at.
TransactionExists(hash) == \E t \in transactions : t.id = hash

\* The row the analyzer inserts for a transfer to a tracked address;
\* confirmation_count is left unset and the insert stores the column default.
DepositTransaction(tx, blockHash, blockNo) ==
    [id |-> tx.hash, block_hash |-> blockHash, block_no |-> blockNo,
     type |-> "deposit", status |-> "confirmed", to_addr |-> tx.to_addr,
     token_addr |-> tx.token_addr, amount |-> tx.amount,
     confirmation_count |-> 0]

\* analyzeTransaction on a successful receipt: a known hash is skipped, a
\* transfer to a tracked address is recorded as a confirmed deposit.
AnalyzeTransaction(rows, tx, blockHash, blockNo) ==
    IF (\E t \in rows : t.id = tx.hash) \/ ~IsUserAddress(1, tx.to_addr)
    THEN rows
    ELSE rows \cup {DepositTransaction(tx, blockHash, blockNo)}

\* finalized from finalized_blocks confirmations on, safe from
\* confirmation_blocks on, confirmed below.
TransactionStatusFor(conf) ==
    IF conf >= FinalizedBlocks THEN "finalized"
    ELSE IF conf >= ConfirmationBlocks THEN "safe" ELSE "confirmed"

MapTransactionToCreditStatus(status) ==
    IF status \in {"confirmed", "safe"} THEN "confirmed" ELSE status

\* UpdateAll of the credits with reference_id = tx.id and reference_type =
\* blockchain_tx.
UpdateCreditStatus(rows, txId, txStatus) ==
    {IF c.reference_id = txId /\ c.reference_type = "blockchain_tx"
     THEN [c EXCEPT !.status = MapTransactionToCreditStatus(txStatus)]
     ELSE c : c \in rows}

\* SELECT COUNT(*) FROM credits WHERE reference_id AND reference_type.
CreditExists(rows, txId) ==
    \E c \in rows : c.reference_id = txId /\ c.reference_type = "blockchain_tx"

\* event_index is left unset for a native transfer and the insert then stores
\* the column default 0; an ERC-20 transfer sets 0.
StoredEventIndex(tx) == {0}

\* UNIQUE (user_id, reference_id, reference_type, event_index)
CreditUniqueViolation(rows, credit) ==
    \E c \in rows :
       /\ c.user_id = credit.user_id /\ c.reference_id = credit.reference_id
       /\ c.reference_type = credit.reference_type
       /\ c.event_index # {} /\ c.event_index = credit.event_index

\* getTokenInfo: the native token row for an empty token address (created on
\* first use), else the row with that contract address; none is an error.
TokenFor(tx) ==
    {t \in TokenRows : IF tx.token_addr = NULL THEN t.is_native
                       ELSE t.token_address = tx.token_addr}

\* CreateCredit: the wallet of the recipient and the token must be found, and
\* the insert must pass the unique constraint; otherwise an error is returned
\* and the table is left as it is.
CreateCredit(rows, tx) ==
    LET ws == {w \in wallets : w.chain_id = 1 /\ w.address_index = tx.to_addr}
        w == CHOOSE x \in ws : TRUE
        tk == CHOOSE t \in TokenFor(tx) : TRUE
        credit == [id |-> Cardinality(rows) + 1, user_id |-> w.user_id,
                   token_id |-> tk.id, chain_id |-> 1, amount |-> tx.amount,
                   credit_type |-> "deposit", reference_id |-> tx.id,
                   reference_type |-> "blockchain_tx", status |-> "finalized",
                   block_number |-> {tx.block_no},
                   event_index |-> StoredEventIndex(tx)]
    IN IF ws = {} \/ TokenFor(tx) = {} THEN rows
       ELSE IF CreditUniqueViolation(rows, credit) THEN rows
       ELSE rows \cup {credit}

\* The rows of a list with the smallest block_no (ORDER BY block_no ASC).
FirstByBlock(list) == {t \in list : \A u \in list : t.block_no <= u.block_no}

\* The analyzer records a transfer found in a block of the chain.
DepositRecorded(tx, blockNo) ==
    /\ ~TransactionExists(tx.hash)
    /\ transactions' = AnalyzeTransaction(transactions, tx, <<blockNo, "a">>,
                                          blockNo)
    /\ transactions' # transactions
    /\ UNCHANGED <<credits, depVars, exceptDep>>

\* ProcessFinalizedDeposits: the finalized deposits without a credit are
\* loaded; an empty list ends the run.
BackfillLoad(p) ==
    LET list == {t \in transactions :
                    /\ t.type = "deposit" /\ t.status = "finalized"
                    /\ ~CreditExists(credits, t.id)}
        seen == {t.id : t \in {x \in transactions : x.status = "finalized"}}
    IN IF list = {}
       THEN /\ depProc' = [depProc EXCEPT ![p] = DepIdle]
            /\ backfilled' = backfilled \cup seen
       ELSE /\ depProc' = [depProc EXCEPT ![p] =
                  [DepIdle EXCEPT !.pc = "bf_iter", !.list = list,
                                  !.seen = seen]]
            /\ UNCHANGED backfilled

\* The end of a backfill run: the deposits that were finalized when it
\* started, and still are, have been covered by a complete run.
BackfillContinue(p, rest) ==
    IF rest = {}
    THEN /\ depProc' = [depProc EXCEPT ![p] = DepIdle]
         /\ backfilled' = backfilled \cup
               {t.id : t \in {x \in transactions :
                                 x.status = "finalized" /\ x.id \in depProc[p].seen}}
    ELSE /\ depProc' = [depProc EXCEPT ![p].pc = "bf_iter", ![p].list = rest]
         /\ UNCHANGED backfilled

\* The scanner's post-scan hook: UpdateConfirmationStatus(chain, latest) loads
\* the transactions in confirmed, safe or finalized, then runs the backfill.
UpdateConfirmationStatus_Load(p, latest) ==
    LET list == {t \in transactions :
                    t.status \in {"confirmed", "safe", "finalized"}} IN
    /\ p = "hook"
    /\ depProc[p].pc = "idle"
    /\ depProc' = [depProc EXCEPT ![p] =
          [DepIdle EXCEPT !.pc = IF list = {} THEN "bf_load" ELSE "conf_iter",
                          !.latest = latest, !.list = list,
                          !.seen = {t.id : t \in list}]]
    /\ UNCHANGED <<credits, transactions, backfilled, exceptDep>>

\* One iteration over the loaded transactions: a negative confirmation count
\* skips the row; a status different from the one loaded is written to the
\* transaction together with the count, the credits follow in a later
\* statement; with the same status only the count is written.
UpdateConfirmationStatus_Step(p) ==
    \E t \in FirstByBlock(depProc[p].list) :
    LET rest == depProc[p].list \ {t}
        conf == depProc[p].latest - t.block_no
        new == TransactionStatusFor(conf) IN
    /\ depProc[p].pc = "conf_iter"
    /\ IF conf >= 0 /\ t.status # new
       THEN /\ transactions' = {IF x.id = t.id
                                THEN [x EXCEPT !.status = new,
                                               !.confirmation_count = conf]
                                ELSE x : x \in transactions}
            /\ depProc' = [depProc EXCEPT ![p].pc = "conf_credit",
                              ![p].list = rest, ![p].cur = t.id, ![p].status = new]
            /\ backfilled' = IF new = "finalized" THEN backfilled
                             ELSE backfilled \ {t.id}
       ELSE /\ depProc' = [depProc EXCEPT ![p].list = rest,
                              ![p].pc = IF rest = {} THEN "bf_load" ELSE "conf_iter"]
            /\ transactions' = IF conf >= 0
                               THEN {IF x.id = t.id
                                     THEN [x EXCEPT !.confirmation_count = conf]
                                     ELSE x : x \in transactions}
                               ELSE transactions
            /\ UNCHANGED backfilled
    /\ UNCHANGED <<credits, exceptDep>>

\* The UPDATE of one iteration fails: the error is logged, the loop goes on
\* with the next transaction and the call still returns nil.
UpdateConfirmationStatus_StepFail(p) ==
    \E t \in FirstByBlock(depProc[p].list) :
    LET rest == depProc[p].list \ {t} IN
    /\ depProc[p].pc = "conf_iter"
    /\ depProc[p].latest - t.block_no >= 0
    /\ depProc' = [depProc EXCEPT ![p].list = rest,
                      ![p].pc = IF rest = {} THEN "bf_load" ELSE "conf_iter"]
    /\ UNCHANGED <<transactions, backfilled, credits, exceptDep>>

\* updateCreditStatus for the transaction whose status was just written.
UpdateConfirmationStatus_Credit(p) ==
    /\ depProc[p].pc = "conf_credit"
    /\ credits' = UpdateCreditStatus(credits, depProc[p].cur, depProc[p].status)
    /\ depProc' = [depProc EXCEPT ![p].cur = 0, ![p].status = NULL,
          ![p].pc = IF depProc[p].list = {} THEN "bf_load" ELSE "conf_iter"]
    /\ UNCHANGED <<transactions, backfilled, exceptDep>>

\* updateCreditStatus fails: the error is logged and not returned, the
\* transaction keeps its new status and the run goes on.
UpdateConfirmationStatus_CreditFail(p) ==
    /\ depProc[p].pc = "conf_credit"
    /\ depProc' = [depProc EXCEPT ![p].cur = 0, ![p].status = NULL,
          ![p].pc = IF depProc[p].list = {} THEN "bf_load" ELSE "conf_iter"]
    /\ UNCHANGED <<credits, transactions, backfilled, exceptDep>>

\* ProcessFinalizedDeposits called by the hook after the confirmation update.
ProcessFinalizedDeposits_Hook(p) ==
    /\ depProc[p].pc = "bf_load"
    /\ BackfillLoad(p)
    /\ UNCHANGED <<credits, transactions, exceptDep>>

\* ProcessFinalizedDeposits called by the periodic backfill worker.
ProcessFinalizedDeposits_Worker(p) ==
    /\ p = "worker"
    /\ depProc[p].pc = "idle"
    /\ BackfillLoad(p)
    /\ UNCHANGED <<credits, transactions, exceptDep>>

\* ProcessDeposit on a loaded deposit: the credit-exists check.
ProcessDeposit_Check(p) ==
    \E t \in FirstByBlock(depProc[p].list) :
    LET rest == depProc[p].list \ {t} IN
    /\ depProc[p].pc = "bf_iter"
    /\ IF CreditExists(credits, t.id)
       THEN BackfillContinue(p, rest)
       ELSE /\ depProc' = [depProc EXCEPT ![p].pc = "bf_create",
                              ![p].list = rest, ![p].cur = t.id]
            /\ UNCHANGED backfilled
    /\ UNCHANGED <<credits, transactions, exceptDep>>

\* CreateCredit for the loaded deposit; an error is logged and the loop goes on.
ProcessDeposit_Create(p) ==
    LET t == CHOOSE x \in transactions : x.id = depProc[p].cur IN
    /\ depProc[p].pc = "bf_create"
    /\ credits' = CreateCredit(credits, t)
    /\ BackfillContinue(p, depProc[p].list)
    /\ UNCHANGED <<transactions, exceptDep>>

NextDeposit ==
    \/ \E tx \in ChainTxs, b \in 1..MaxMinedBlock : DepositRecorded(tx, b)
    \/ \E p \in DepProcs, latest \in 0..MaxLatest :
          UpdateConfirmationStatus_Load(p, latest)
    \/ \E p \in DepProcs : UpdateConfirmationStatus_Step(p)
    \/ \E p \in DepProcs : UpdateConfirmationStatus_StepFail(p)
    \/ \E p \in DepProcs : UpdateConfirmationStatus_Credit(p)
    \/ \E p \in DepProcs : ProcessFinalizedDeposits_Hook(p)
    \/ \E p \in DepProcs : ProcessFinalizedDeposits_Worker(p)
    \/ \E p \in DepProcs : ProcessDeposit_Check(p)
    \/ \E p \in DepProcs : ProcessDeposit_Create(p)


(***************************************************************************)
(* Block scanner: scanLoop, ScanChainBlock, scanBlock and the reorg        *)
(* detector                                                                *)
(***************************************************************************)
\* A block hash is <<height, branch>>: branch "a" is the history the node
\* served first, branch "b" the one that replaced it from node.forkAt on
\* (forkAt = 0: no reorg so far).
BlockHash(h, branch) == <<h, branch>>

\* The block the node returns for a height (GetBlockByNumber).
CanonicalHash(h) ==
    BlockHash(h, IF node.forkAt # 0 /\ h >= node.forkAt THEN "b" ELSE "a")

\* block.ParentHash()
ParentHash(hash) ==
    BlockHash(hash[1] - 1,
              IF hash[2] = "b" /\ hash[1] - 1 >= node.forkAt THEN "b" ELSE "a")

\* The one deposit the chain carries: a native transfer to the address of
\* index 0.  node.txA / node.txB is the height of the block of branch a / b
\* that contains it (0: none).
ScanTx == CHOOSE tx \in ChainTxs : tx.hash = 1

BlockTransactions(hash) ==
    IF \/ hash[2] = "a" /\ node.txA = hash[1]
       \/ hash[2] = "b" /\ node.txB = hash[1]
    THEN {ScanTx} ELSE {}

TxInCanonicalChain ==
    \/ node.txA # 0 /\ (node.forkAt = 0 \/ node.txA < node.forkAt)
    \/ node.txB # 0

Scanners == {"loop", "manual"}
ScanIdle == [pc |-> "idle", currentBlock |-> 0, cur |-> 0, endBlock |-> 0,
             latest |-> 0, block |-> BlockHash(0, "a"), orphans |-> {},
             loaded |-> {}, rolled |-> FALSE, start |-> 0]

InitScan ==
    /\ node = [tip |-> 1, forkAt |-> 0, txA |-> 0, txB |-> 0]
    /\ blocks = {}
    /\ scanProc = [s \in Scanners |->
                     IF s = "loop" THEN [ScanIdle EXCEPT !.pc = "stopped"]
                     ELSE ScanIdle]
    /\ rpcFailures = 0
    /\ manualScans = 0
    /\ receiptSkipped = {}

\* The chain grows by one block, which may include the deposit if no block of
\* the current history does.
ChainGrow(withTx) ==
    LET h == node.tip + 1 IN
    /\ node.tip < MaxHeight
    /\ withTx => ~TxInCanonicalChain
    /\ node' = IF ~withTx THEN [node EXCEPT !.tip = h]
                ELSE IF node.forkAt = 0
                THEN [node EXCEPT !.tip = h, !.txA = h]
                ELSE [node EXCEPT !.tip = h, !.txB = h]
    /\ UNCHANGED <<blocks, scanProc, rpcFailures, manualScans, receiptSkipped, credits,
                   transactions, exceptScan>>

\* The history from height r on is replaced by blocks of branch b, none of
\* which includes the deposit; a deposit of a replaced block is pending again.
ChainReorg(r) ==
    /\ node.forkAt = 0
    /\ r \in 1..node.tip
    /\ node' = [node EXCEPT !.forkAt = r]
    /\ UNCHANGED <<blocks, scanProc, rpcFailures, manualScans, receiptSkipped, credits,
                   transactions, exceptScan>>

Min(a, b) == IF a <= b THEN a ELSE b

\* The rows of blocks at a height whose status is not orphaned.
LiveBlocksAt(h) == {b \in blocks : b.number = h /\ b.status # "orphaned"}

\* getStartBlock: one past the highest non-orphaned stored block; the node's
\* latest block if there is none.
GetStartBlock ==
    LET live == {b \in blocks : b.status # "orphaned"} IN
    IF live = {} THEN node.tip
    ELSE (CHOOSE b \in live : \A o \in live : o.number <= b.number).number + 1

\* start: the start block is computed and the loop launched.
ScanLoop_Start(s) ==
    /\ scanProc[s].pc = "stopped"
    /\ scanProc' = [scanProc EXCEPT ![s] =
          [ScanIdle EXCEPT !.pc = "sleep", !.currentBlock = GetStartBlock,
                           !.start = GetStartBlock]]
    /\ UNCHANGED <<node, blocks, rpcFailures, manualScans, receiptSkipped, credits,
                   transactions, exceptScan>>

\* The first batch of a tick, or the next one: [from, min(from + size - 1,
\* latest)]; none is left when from is past latest, and the hooks run.
BeginBatch(proc, from, latest) ==
    IF from <= latest
    THEN [proc EXCEPT !.pc = "fetch", !.currentBlock = from, !.cur = from,
                      !.endBlock = Min(from + BlockBatchSize - 1, latest),
                      !.latest = latest, !.block = ScanIdle.block,
                      !.orphans = {}, !.rolled = FALSE]
    ELSE [proc EXCEPT !.pc = "hooks", !.currentBlock = from, !.cur = 0,
                      !.endBlock = 0, !.latest = latest,
                      !.block = ScanIdle.block, !.orphans = {},
                      !.rolled = FALSE]

\* A tick of the loop: the latest block number is fetched and the batches
\* from the cursor on are scanned.
ScanLoop_Tick(s) ==
    /\ scanProc[s].pc = "sleep"
    /\ scanProc' = [scanProc EXCEPT ![s] =
          BeginBatch(scanProc[s], scanProc[s].currentBlock, node.tip)]
    /\ UNCHANGED <<node, blocks, rpcFailures, manualScans, receiptSkipped, credits,
                   transactions, exceptScan>>

\* ScanChainBlock(chain, n): a temporary scanner scans block n and runs the
\* hooks with n as the latest block.
ScanChainBlock(s, n) ==
    /\ s = "manual"
    /\ scanProc[s].pc = "idle"
    /\ n \in 1..node.tip
    /\ manualScans < MaxManualScans
    /\ manualScans' = manualScans + 1
    /\ scanProc' = [scanProc EXCEPT ![s] =
          [ScanIdle EXCEPT !.pc = "fetch", !.cur = n, !.endBlock = n,
                           !.latest = n, !.start = n]]
    /\ UNCHANGED <<node, blocks, rpcFailures, receiptSkipped, credits,
                   transactions, exceptScan>>

\* scanBlock returned an error: the loop leaves the batch, keeps its cursor
\* and runs the hooks; ScanChainBlock returns the error.
AfterScanError(s) ==
    IF s = "manual" THEN ScanIdle
    ELSE [scanProc[s] EXCEPT !.pc = "hooks", !.cur = 0, !.endBlock = 0,
                             !.block = ScanIdle.block, !.orphans = {},
                             !.rolled = FALSE]

\* A range scan that leaves a height out.
NextHeight_Skip(n) == n + 2

\* scanBlockRange: current = current + 1.
NextHeight(n) == n + 1

\* scanBlock returned nil: the next block of the batch, the next batch, or
\* the hooks.
AfterScanBlock(s) ==
    LET proc == scanProc[s] IN
    IF s = "manual"
    THEN [proc EXCEPT !.pc = "hooks", !.block = ScanIdle.block,
                      !.orphans = {}, !.rolled = FALSE]
    ELSE IF proc.cur < proc.endBlock
    THEN [proc EXCEPT !.pc = "fetch", !.cur = NextHeight(proc.cur),
                      !.block = ScanIdle.block, !.orphans = {},
                      !.rolled = FALSE]
    ELSE BeginBatch(proc, proc.endBlock + 1, proc.latest)

\* scanBlock, first part: the block is fetched and detectAndHandleReorg looks
\* up a non-orphaned row at the height below; if its hash is not the parent
\* hash of the fetched block, handleReorg loads the non-orphaned rows above
\* that height for rollback.
ScanBlock_Fetch(s) ==
    LET proc == scanProc[s]
        block == CanonicalHash(proc.cur)
        above == {b \in blocks : b.number > proc.cur - 1 /\ b.status # "orphaned"}
    IN
    /\ proc.pc = "fetch"
    /\ proc.cur <= node.tip
    /\ IF LiveBlocksAt(proc.cur - 1) = {}
       THEN scanProc' = [scanProc EXCEPT ![s].pc = "exists",
                                         ![s].block = block]
       ELSE \E parent \in LiveBlocksAt(proc.cur - 1) :
               scanProc' = [scanProc EXCEPT ![s] =
                  IF parent.hash = ParentHash(block)
                  THEN [proc EXCEPT !.pc = "exists", !.block = block]
                  ELSE [proc EXCEPT !.pc = IF above = {} THEN "exists"
                                           ELSE "rollback",
                                    !.block = block, !.orphans = above,
                                    !.loaded = above, !.rolled = TRUE]]
    /\ UNCHANGED <<node, blocks, rpcFailures, manualScans, receiptSkipped, credits,
                   transactions, exceptScan>>

\* GetBlockByNumber fails.
ScanBlock_FetchFail(s) ==
    /\ scanProc[s].pc = "fetch"
    /\ rpcFailures < MaxRpcFailures
    /\ rpcFailures' = rpcFailures + 1
    /\ scanProc' = [scanProc EXCEPT ![s] = AfterScanError(s)]
    /\ UNCHANGED <<node, blocks, manualScans, receiptSkipped, credits,
                   transactions, exceptScan>>

\* rollbackBlock on the highest block left of the loaded list, in one
\* transaction: the row with that hash becomes orphaned, the transactions with
\* that block_hash and the credits with that block_number become failed.
RollbackBlock(s) ==
    LET proc == scanProc[s] IN
    /\ proc.pc = "rollback"
    /\ \E b \in proc.orphans :
          /\ \A o \in proc.orphans : o.number <= b.number
          /\ blocks' = {IF r.hash = b.hash THEN [r EXCEPT !.status = "orphaned"]
                        ELSE r : r \in blocks}
          /\ transactions' = {IF t.block_hash = b.hash
                              THEN [t EXCEPT !.status = "failed"]
                              ELSE t : t \in transactions}
          /\ credits' = {IF c.chain_id = 1 /\ c.block_number = {b.number}
                         THEN [c EXCEPT !.status = "failed"]
                         ELSE c : c \in credits}
          /\ scanProc' = [scanProc EXCEPT ![s] =
                [proc EXCEPT !.orphans = proc.orphans \ {b},
                             !.loaded = IF proc.orphans = {b} THEN {}
                                        ELSE proc.loaded,
                             !.pc = IF proc.orphans = {b} THEN "exists"
                                    ELSE "rollback"]]
    /\ UNCHANGED <<node, rpcFailures, manualScans, receiptSkipped, exceptScan>>

\* blockExists: SELECT COUNT(*) FROM blocks WHERE chain_id = $1 AND
\* (hash = $2 OR number = $3), whatever the status of the row.
BlockExists(hash, number) ==
    \E b \in blocks : b.hash = hash \/ b.number = number

\* scanBlock, the existence check: a stored block is skipped.
ScanBlock_Exists(s) ==
    LET proc == scanProc[s] IN
    /\ proc.pc = "exists"
    /\ scanProc' = [scanProc EXCEPT ![s] =
          IF BlockExists(proc.block, proc.cur) THEN AfterScanBlock(s)
          ELSE [proc EXCEPT !.pc = "save"]]
    /\ UNCHANGED <<node, blocks, rpcFailures, manualScans, receiptSkipped, credits,
                   transactions, exceptScan>>

\* saveBlock: the row is inserted as confirmed; PRIMARY KEY (hash, chain_id)
\* rejects a hash that is stored, and scanBlock returns the error.
SaveBlock(s) ==
    LET proc == scanProc[s] IN
    /\ proc.pc = "save"
    /\ IF \E b \in blocks : b.hash = proc.block
       THEN /\ scanProc' = [scanProc EXCEPT ![s] = AfterScanError(s)]
            /\ UNCHANGED blocks
       ELSE /\ blocks' = blocks \cup
                  {[hash |-> proc.block, number |-> proc.cur,
                    parent_hash |-> ParentHash(proc.block),
                    status |-> "confirmed"]}
            /\ scanProc' = [scanProc EXCEPT ![s].pc = "txs"]
    /\ UNCHANGED <<node, rpcFailures, manualScans, receiptSkipped, credits, transactions,
                   exceptScan>>

\* processBlockTransactions: every transaction of the block whose receipt can
\* be fetched goes to the analyzer; a failed receipt fetch is skipped.
ProcessBlockTransactions(s, receiptOk) ==
    LET proc == scanProc[s]
        txs == BlockTransactions(proc.block) IN
    /\ proc.pc = "txs"
    /\ receiptOk \/ txs # {}
    /\ IF txs # {} /\ receiptOk
       THEN /\ transactions' = AnalyzeTransaction(transactions, ScanTx,
                                                  proc.block, proc.cur)
            /\ UNCHANGED receiptSkipped
       ELSE /\ receiptSkipped' = IF txs = {} THEN receiptSkipped
                                 ELSE receiptSkipped \cup {proc.block}
            /\ UNCHANGED transactions
    /\ scanProc' = [scanProc EXCEPT ![s] = AfterScanBlock(s)]
    /\ UNCHANGED <<node, blocks, rpcFailures, manualScans, credits, exceptScan>>

\* UpdateConfirmationStatus(chain, latest) as a whole: every confirmed, safe or
\* finalized transaction with a non-negative confirmation count gets the
\* status of that count, and the credits of a transaction whose status
\* changed get the mapped status.
ConfirmationTargets(latest) ==
    {t \in transactions : /\ t.status \in {"confirmed", "safe", "finalized"}
                          /\ latest - t.block_no >= 0}

TransactionsConfirmed(latest) ==
    {IF t \in ConfirmationTargets(latest)
     THEN [t EXCEPT !.status = TransactionStatusFor(latest - t.block_no),
                    !.confirmation_count = latest - t.block_no]
     ELSE t : t \in transactions}

CreditsConfirmed(latest) ==
    {IF \E t \in ConfirmationTargets(latest) :
           /\ c.reference_id = t.id /\ c.reference_type = "blockchain_tx"
           /\ t.status # TransactionStatusFor(latest - t.block_no)
     THEN [c EXCEPT !.status = MapTransactionToCreditStatus(
              TransactionStatusFor(latest -
                 (CHOOSE t \in ConfirmationTargets(latest) :
                     c.reference_id = t.id).block_no))]
     ELSE c : c \in credits}

\* ProcessFinalizedDeposits as a whole: CreateCredit for the listed deposits,
\* one after the other.
RECURSIVE CreditsBackfilled(_, _)
CreditsBackfilled(rows, list) ==
    IF list = {} THEN rows
    ELSE LET t == CHOOSE x \in FirstByBlock(list) : TRUE IN
         CreditsBackfilled(CreateCredit(rows, t), list \ {t})

\* runPostScanHooks(latest): the confirmation update, then the backfill of
\* the finalized deposits without a credit.
RunPostScanHooks(s) ==
    LET latest == scanProc[s].latest
        txs == TransactionsConfirmed(latest)
        confirmed == CreditsConfirmed(latest)
        list == {t \in txs : /\ t.type = "deposit" /\ t.status = "finalized"
                             /\ ~CreditExists(confirmed, t.id)}
    IN
    /\ scanProc[s].pc = "hooks"
    /\ transactions' = txs
    /\ credits' = CreditsBackfilled(confirmed, list)
    /\ scanProc' = [scanProc EXCEPT ![s] =
          IF s = "manual" THEN ScanIdle
          ELSE [ScanIdle EXCEPT !.pc = "sleep",
                                !.currentBlock = scanProc[s].currentBlock,
                                !.start = scanProc[s].start]]
    /\ UNCHANGED <<node, blocks, rpcFailures, manualScans, receiptSkipped, exceptScan>>

\* The scan loop with concurrent ScanChainBlock calls; block fetches succeed.
NextScan ==
    \/ \E withTx \in BOOLEAN : ChainGrow(withTx)
    \/ \E r \in 1..MaxHeight : ChainReorg(r)
    \/ \E s \in Scanners : ScanLoop_Start(s)
    \/ \E s \in Scanners : ScanLoop_Tick(s)
    \/ \E s \in Scanners, n \in 1..MaxHeight : ScanChainBlock(s, n)
    \/ \E s \in Scanners : ScanBlock_Fetch(s)
    \/ \E s \in Scanners : RollbackBlock(s)
    \/ \E s \in Scanners : ScanBlock_Exists(s)
    \/ \E s \in Scanners : SaveBlock(s)
    \/ \E s \in Scanners, ok \in BOOLEAN : ProcessBlockTransactions(s, ok)
    \/ \E s \in Scanners : RunPostScanHooks(s)

(***************************************************************************)
(* Keystore service: CreateKeystore                                        *)
(***************************************************************************)
Mnemonics == {"m1", "m2"}
KsProcs == 1..NumKsProcs
KsIdle == [pc |-> "idle", mnemonic |-> NULL, seen |-> {}, result |-> NULL]

\* The fixed id CreateKeystore gives its row.
KeystoreId == "00000000-0000-0000-0000-000000000001"

InitKeystore ==
    /\ keystore = {}
    /\ ksProc = [p \in KsProcs |-> KsIdle]

\* Exists: SELECT COUNT(*) FROM keystore > 0.
Exists == Cardinality(keystore) > 0

\* The row CreateKeystore inserts: the mnemonic encrypted under the password.
NewKeystore(mnemonic) ==
    [id |-> KeystoreId, keystore_data |-> <<"encrypted", mnemonic>>,
     version |-> 3]

\* A keystore table without PRIMARY KEY (id) and without the unique index
\* idx_keystore_single.
KeystoreUniqueViolation_NoIndex(rows, row) == row \in rows

\* PRIMARY KEY (id) and the unique index idx_keystore_single on the constant
\* 1: an insert is rejected when a row is stored.
KeystoreUniqueViolation(rows, row) ==
    \/ \E r \in rows : r.id = row.id
    \/ rows # {}

\* A CreateKeystore call is made; seen is the table at that moment.
CreateKeystore_Call(p, mnemonic) ==
    /\ ksProc[p].pc = "idle"
    /\ ksProc' = [ksProc EXCEPT ![p] =
          [KsIdle EXCEPT !.pc = "check", !.mnemonic = mnemonic,
                         !.seen = keystore]]
    /\ UNCHANGED <<keystore, exceptKs>>

\* The existence check: 'keystore already exists' when a row is stored.
CreateKeystore_Exists(p) ==
    /\ ksProc[p].pc = "check"
    /\ ksProc' = [ksProc EXCEPT ![p] =
          IF Exists
          THEN [@ EXCEPT !.pc = "done", !.result = "keystore already exists"]
          ELSE [@ EXCEPT !.pc = "insert"]]
    /\ UNCHANGED <<keystore, exceptKs>>

\* The insert of the encrypted mnemonic; a constraint violation is returned as
\* 'failed to insert keystore'.
CreateKeystore_Insert(p) ==
    LET row == NewKeystore(ksProc[p].mnemonic) IN
    /\ ksProc[p].pc = "insert"
    /\ IF KeystoreUniqueViolation(keystore, row)
       THEN /\ ksProc' = [ksProc EXCEPT ![p].pc = "done",
                             ![p].result = "failed to insert keystore"]
            /\ UNCHANGED keystore
       ELSE /\ keystore' = keystore \cup {row}
            /\ ksProc' = [ksProc EXCEPT ![p].pc = "done", ![p].result = "ok"]
    /\ UNCHANGED exceptKs

NextKeystore ==
    \/ \E p \in KsProcs, mnemonic \in Mnemonics : CreateKeystore_Call(p, mnemonic)
    \/ \E p \in KsProcs : CreateKeystore_Exists(p)
    \/ \E p \in KsProcs : CreateKeystore_Insert(p)

(***************************************************************************)
(* Transfers from the hot wallet: rebalance (transferBetweenHotWallets)    *)
(* and collect (ensureNativeGas)                                           *)
(***************************************************************************)
\* Keys of the wallet_nonces rows of hot wallets.
HotWalletKeys ==
    {<<hw.address_index, hw.chain_id>> :
        hw \in {x \in wallets : x.wallet_type = "hot"}}

Senders == {"rebalance", "collect"}
SendIdle == [pc |-> "idle", nonce |-> 0, allocated |-> FALSE]

InitSend ==
    /\ hotSent = {}
    /\ sendProc = [s \in Senders |-> SendIdle]

\* The nonces of the transactions the node holds for the hot wallet.
SentNonces == {b.nonce : b \in hotSent}

\* eth_getTransactionCount(address, "pending"): the first nonce the node has
\* no transaction for.
PendingNonceAt ==
    CHOOSE n \in 0..(MaxNonce + 1) :
       n \notin SentNonces /\ \A m \in 0..(n - 1) : m \in SentNonces

\* transferBetweenHotWallets: the nonce is reserved with GetNextNonce.
Rebalance_GetNextNonce(s) ==
    /\ s = "rebalance"
    /\ sendProc[s].pc = "idle"
    /\ \E k \in HotWalletKeys :
          /\ HasNonceRow(k)
          /\ StoredNonce(k) < MaxNonce
          /\ NonceRowLockFree(k)
          /\ wallet_nonces' = {IF r.key = k THEN [r EXCEPT !.nonce = @ + 1]
                                            ELSE r : r \in wallet_nonces}
          /\ nonceLog' = [nonceLog EXCEPT ![k] = Append(@, StoredNonce(k))]
          /\ sendProc' = [sendProc EXCEPT ![s] =
                [pc |-> "signed", nonce |-> StoredNonce(k), allocated |-> TRUE]]
    /\ UNCHANGED <<hotSent, exceptSend>>

\* ensureNativeGas: the nonce of the top-up is the node's pending nonce of
\* the hot wallet; wallet_nonces is not read or written.
EnsureNativeGas_PendingNonceAt(s) ==
    /\ s = "collect"
    /\ sendProc[s].pc = "idle"
    /\ PendingNonceAt < MaxNonce
    /\ sendProc' = [sendProc EXCEPT ![s] =
          [pc |-> "signed", nonce |-> PendingNonceAt, allocated |-> FALSE]]
    /\ UNCHANGED <<hotSent, wdNonce, exceptSend>>

\* SendTransaction: the node takes the transaction unless it holds one of the
\* same sender and nonce; the error ends the transfer.
SendTransaction(s) ==
    /\ sendProc[s].pc = "signed"
    /\ hotSent' = IF sendProc[s].nonce \in SentNonces THEN hotSent
                  ELSE hotSent \cup {[by |-> s, nonce |-> sendProc[s].nonce,
                                      allocated |-> sendProc[s].allocated]}
    /\ sendProc' = [sendProc EXCEPT ![s] =
          IF sendProc[s].nonce \in SentNonces THEN SendIdle
          ELSE [@ EXCEPT !.pc = "waiting"]]
    /\ UNCHANGED <<wdNonce, exceptSend>>

\* Both services wait for the receipt of the transaction they sent.
WaitForReceipt(s) ==
    /\ sendProc[s].pc = "waiting"
    /\ sendProc' = [sendProc EXCEPT ![s] = SendIdle]
    /\ UNCHANGED <<hotSent, wdNonce, exceptSend>>

\* The native transfer ensureNativeGas sends from the hot wallet to the user
\* wallet with address index 0 (its first top-up, nonce 0).
TopUpTx == [hash |-> 4, to_addr |-> 0, token_addr |-> NULL, amount |-> 1]

\* The scanner finds the top-up in block b once the node has accepted it.
TopUpScanned(b) ==
    /\ \E t \in hotSent : t.by = "collect" /\ t.nonce = 0
    /\ DepositRecorded(TopUpTx, b)

NextSend ==
    \/ \E s \in Senders : Rebalance_GetNextNonce(s)
    \/ \E s \in Senders : EnsureNativeGas_PendingNonceAt(s)
    \/ \E s \in Senders : SendTransaction(s)
    \/ \E s \in Senders : WaitForReceipt(s)

(***************************************************************************)
(* Analyzer: analyzeERC20Transfers on the logs of one receipt              *)
(***************************************************************************)
minTransferEventTopics == 3

\* The transaction whose receipt is analyzed.
Erc20TxHash == 5

\* A Transfer log: the number of its topics and the address in Topics[2]
\* (address index 0 is a user wallet, 9 is an address without a wallets row).
TransferLogs == [topics : {2, 3}, to : {0, 9}]

RECURSIVE LogSeqs(_)
LogSeqs(n) ==
    IF n = 0 THEN {<<>>}
    ELSE LogSeqs(n - 1) \cup
         {Append(q, l) : q \in {x \in LogSeqs(n - 1) : Len(x) = n - 1},
                         l \in TransferLogs}

AnalyzerIdle == [logs |-> <<>>, next |-> 0, rows |-> <<>>]

InitAnalyzer == analyzer = AnalyzerIdle

\* analyzeERC20Transfers is called with a successful receipt.
AnalyzeERC20Transfers_Call(logs) ==
    /\ analyzer.next = 0
    /\ Len(logs) > 0
    /\ analyzer' = [logs |-> logs, next |-> 1, rows |-> <<>>]
    /\ UNCHANGED exceptAnalyzer

\* The row inserted for a log: the hash of the transaction is its tx_hash.
Erc20DepositRow(log, index) ==
    [tx_hash |-> Erc20TxHash, to_addr |-> log.to, type |-> "deposit",
     status |-> "confirmed", log_index |-> index]

\* transactionExists at the time a log is handled: a row with the hash of the
\* transaction is in the table.
Erc20TransactionExists(rows) ==
    \/ TransactionExists(Erc20TxHash)
    \/ \E i \in 1..Len(rows) : rows[i].tx_hash = Erc20TxHash

\* One iteration of the loop over receipt.Logs.
AnalyzeERC20Transfers_Log ==
    LET i == analyzer.next
        log == analyzer.logs[i] IN
    /\ analyzer.next \in 1..Len(analyzer.logs)
    /\ analyzer' = [analyzer EXCEPT
          !.next = i + 1,
          !.rows = IF \/ log.topics < minTransferEventTopics
                      \/ ~IsUserAddress(1, log.to)
                      \/ Erc20TransactionExists(analyzer.rows)
                   THEN @ ELSE Append(@, Erc20DepositRow(log, i))]
    /\ UNCHANGED exceptAnalyzer

NextAnalyzer ==
    \/ \E logs \in LogSeqs(MaxLogs) : AnalyzeERC20Transfers_Call(logs)
    \/ AnalyzeERC20Transfers_Log

(***************************************************************************)
(* Collect service: CollectForChain, CollectWallet and the sync.Map guard  *)
(***************************************************************************)
Collectors == 1..NumCollectors
CollectWallets == {"w1", "w2"}
CollectIdle == [pc |-> "idle", wallet |-> NULL, op |-> NULL]

InitCollect ==
    /\ collecting = {}
    /\ collectProc = [p \in Collectors |-> CollectIdle]

\* CollectForChain, one iteration of its loop over the user wallets:
\* collectWalletERC20 starts on the wallet; it takes no guard.
CollectForChain_ERC20(p, w) ==
    /\ collectProc[p].pc = "idle"
    /\ collectProc' = [collectProc EXCEPT ![p] =
          [pc |-> "erc20", wallet |-> w, op |-> "CollectForChain"]]
    /\ UNCHANGED <<collecting, exceptCollect>>

\* collectWalletERC20 returns; collectWalletNative is called on the wallet.
CollectWalletERC20_Return(p) ==
    /\ collectProc[p].pc = "erc20"
    /\ collectProc' = [collectProc EXCEPT ![p].pc = "native_call"]
    /\ UNCHANGED <<collecting, exceptCollect>>

\* CollectWallet(walletID): collectWalletNative is called on the wallet.
CollectWallet(p, w) ==
    /\ collectProc[p].pc = "idle"
    /\ collectProc' = [collectProc EXCEPT ![p] =
          [pc |-> "native_call", wallet |-> w, op |-> "CollectWallet"]]
    /\ UNCHANGED <<collecting, exceptCollect>>

\* collectWalletNative: collecting.LoadOrStore(wallet.ID); a loaded key ends
\* the call with nil, otherwise the sweep starts.
CollectWalletNative_LoadOrStore(p) ==
    LET w == collectProc[p].wallet IN
    /\ collectProc[p].pc = "native_call"
    /\ IF w \in collecting
       THEN /\ collectProc' = [collectProc EXCEPT ![p] = CollectIdle]
            /\ UNCHANGED collecting
       ELSE /\ collecting' = collecting \cup {w}
            /\ collectProc' = [collectProc EXCEPT ![p].pc = "native"]
    /\ UNCHANGED exceptCollect

\* collectWalletNative returns: the deferred collecting.Delete runs.
CollectWalletNative_Return(p) ==
    /\ collectProc[p].pc = "native"
    /\ collecting' = collecting \ {collectProc[p].wallet}
    /\ collectProc' = [collectProc EXCEPT ![p] = CollectIdle]
    /\ UNCHANGED exceptCollect

NextCollect ==
    \/ \E p \in Collectors, w \in CollectWallets : CollectForChain_ERC20(p, w)
    \/ \E p \in Collectors : CollectWalletERC20_Return(p)
    \/ \E p \in Collectors, w \in CollectWallets : CollectWallet(p, w)
    \/ \E p \in Collectors : CollectWalletNative_LoadOrStore(p)
    \/ \E p \in Collectors : CollectWalletNative_Return(p)

(***************************************************************************)
(* Scan service: StartMultiChainScan, StartChainScan, chainScanner.start   *)
(***************************************************************************)
ActiveChains == {1, 2}

InitStart ==
    /\ scanners = {}
    /\ startCalls = [c \in ActiveChains |-> 0]
    /\ startPending = [c \in ActiveChains |-> 0]
    /\ startStarting = [c \in ActiveChains |-> 0]
    /\ scanLoops = [c \in ActiveChains |-> 0]

\* StartMultiChainScan: one goroutine per active chain, each calling
\* StartChainScan(ctx, cid).
StartMultiChainScan ==
    /\ \A c \in ActiveChains : startCalls[c] < MaxStartCalls
    /\ startCalls' = [c \in ActiveChains |-> startCalls[c] + 1]
    /\ startPending' = [c \in ActiveChains |-> startPending[c] + 1]
    /\ UNCHANGED <<scanners, startStarting, scanLoops, exceptStart>>

\* StartChainScan(ctx, chainID) is called; the chain is active and has a
\* client.
StartChainScan_Call(c) ==
    /\ startCalls[c] < MaxStartCalls
    /\ startCalls' = [startCalls EXCEPT ![c] = @ + 1]
    /\ startPending' = [startPending EXCEPT ![c] = @ + 1]
    /\ UNCHANGED <<scanners, startStarting, scanLoops, exceptStart>>

\* StartChainScan under scannersMu: the scanner is created and registered
\* when s.scanners has none for the chain; the call goes on to
\* scanner.start either way.
StartChainScan_GetOrCreate(c) ==
    /\ startPending[c] > 0
    /\ scanners' = scanners \cup {c}
    /\ startPending' = [startPending EXCEPT ![c] = @ - 1]
    /\ startStarting' = [startStarting EXCEPT ![c] = @ + 1]
    /\ UNCHANGED <<startCalls, scanLoops, exceptStart>>

\* chainScanner.start: getStartBlock succeeds, go s.scanLoop(ctx, startBlock).
ChainScanner_Start(c) ==
    /\ startStarting[c] > 0
    /\ startStarting' = [startStarting EXCEPT ![c] = @ - 1]
    /\ scanLoops' = [scanLoops EXCEPT ![c] = @ + 1]
    /\ UNCHANGED <<scanners, startCalls, startPending, exceptStart>>

\* chainScanner.start: getStartBlock fails, no loop is launched.
ChainScanner_StartFails(c) ==
    /\ startStarting[c] > 0
    /\ startStarting' = [startStarting EXCEPT ![c] = @ - 1]
    /\ UNCHANGED <<scanners, startCalls, startPending, scanLoops, exceptStart>>

NextStart ==
    \/ StartMultiChainScan
    \/ \E c \in ActiveChains : StartChainScan_Call(c)
    \/ \E c \in ActiveChains : StartChainScan_GetOrCreate(c)
    \/ \E c \in ActiveChains : ChainScanner_Start(c)
    \/ \E c \in ActiveChains : ChainScanner_StartFails(c)

(***************************************************************************)
(* Rebalance service: RebalanceForChain                                    *)
(* Amounts are in model units: the thresholds keep the source's 3 : 8      *)
(* ratio and the gas buffer is two units.                                  *)
(***************************************************************************)
rebalanceMinBalanceWei == rebalanceMinBalanceETH * weiPerEther
rebalanceMaxBalanceWei == rebalanceMaxBalanceETH * weiPerEther
RebalWallets == {"h1", "h2", "h3"}
\* The balances BalanceAt may report: around both thresholds and the buffer.
RebalBalances ==
    {rebalanceMinBalanceWei - 3, rebalanceMinBalanceWei - 1,
     rebalanceMinBalanceWei, rebalanceMaxBalanceWei,
     rebalanceMaxBalanceWei + rebalanceGasBufferWei,
     rebalanceMaxBalanceWei + rebalanceGasBufferWei + 1,
     rebalanceMaxBalanceWei + rebalanceGasBufferWei + 4}

RebalIdle == [pc |-> "idle", donors |-> <<>>, receivers |-> <<>>,
              i |-> 0, d |-> 0, needed |-> 0, transfers |-> <<>>]

InitRebal == rebal = RebalIdle

\* The orders sort.Slice may leave the wallets of S in: by balance,
\* descending (desc) or ascending; equal balances in either order.
SortedSlices(S, bal, desc) ==
    {q \in [1..Cardinality(S) -> S] :
        /\ \A a, b \in 1..Cardinality(S) : a # b => q[a] # q[b]
        /\ \A a, b \in 1..Cardinality(S) :
              a < b => IF desc THEN bal[q[a]] >= bal[q[b]]
                               ELSE bal[q[a]] <= bal[q[b]]}

\* RebalanceForChain up to the matching loop: balances fetched, wallets
\* partitioned and sorted; no donor or no receiver ends the run.
RebalanceForChain_Call(bal) ==
    LET D == {w \in RebalWallets : bal[w] > rebalanceMaxBalanceWei}
        R == {w \in RebalWallets : bal[w] < rebalanceMinBalanceWei}
    IN  /\ rebal.pc = "idle"
        /\ IF D = {} \/ R = {}
           THEN rebal' = [RebalIdle EXCEPT !.pc = "done"]
           ELSE \E dq \in SortedSlices(D, bal, TRUE),
                   rq \in SortedSlices(R, bal, FALSE) :
                  rebal' = [RebalIdle EXCEPT
                      !.pc = "loop",
                      !.donors = [k \in 1..Cardinality(D) |->
                                    [wallet |-> dq[k], balance |-> bal[dq[k]]]],
                      !.receivers = [k \in 1..Cardinality(R) |->
                                    [wallet |-> rq[k], balance |-> bal[rq[k]]]],
                      !.i = 1]
        /\ UNCHANGED exceptRebal

\* The outer loop reaches receiver i: needed := min - balance.
RebalanceForChain_Receiver ==
    /\ rebal.pc = "loop"
    /\ rebal.d = 0
    /\ IF rebal.i > Len(rebal.receivers)
       THEN rebal' = [rebal EXCEPT !.pc = "done"]
       ELSE LET needed == rebalanceMinBalanceWei - rebal.receivers[rebal.i].balance
            IN  IF needed <= 0
                THEN rebal' = [rebal EXCEPT !.i = @ + 1]
                ELSE rebal' = [rebal EXCEPT !.needed = needed, !.d = 1]
    /\ UNCHANGED exceptRebal

\* What a donor can give: its balance above the max threshold, less the
\* gas buffer.
Available_NoBuffer(balance) == balance - rebalanceMaxBalanceWei
Available(balance) == balance - rebalanceMaxBalanceWei - rebalanceGasBufferWei

MinOf(a, b) == IF a > b THEN b ELSE a

\* The loop position after donor d of receiver i: the next donor, or the
\* next receiver after the last donor or a break.
AfterDonor(r, brk) ==
    IF brk \/ r.d >= Len(r.donors)
    THEN [r EXCEPT !.i = @ + 1, !.d = 0]
    ELSE [r EXCEPT !.d = @ + 1]

\* One pass of the inner loop: donor d against receiver i; ok is the
\* outcome of transferBetweenHotWallets.
RebalanceForChain_Donor(ok) ==
    LET donor == rebal.donors[rebal.d]
        available == Available(donor.balance)
        transfer == MinOf(available, rebal.needed)
        moved == [rebal EXCEPT
            !.donors[rebal.d].balance = @ - transfer,
            !.receivers[rebal.i].balance = @ + transfer,
            !.needed = @ - transfer,
            !.transfers = Append(@,
                [from |-> donor.wallet,
                 to |-> rebal.receivers[rebal.i].wallet,
                 amount |-> transfer,
                 surplus |-> donor.balance - rebalanceMaxBalanceWei,
                 need |-> rebal.needed])]
    IN  /\ rebal.pc = "loop"
        /\ rebal.d > 0
        /\ IF available <= 0 \/ transfer <= 0 \/ ~ok
           THEN rebal' = AfterDonor(rebal, FALSE)
           ELSE IF moved.donors[rebal.d].balance <= rebalanceMaxBalanceWei
                THEN rebal' = AfterDonor(moved, FALSE)
                ELSE rebal' = AfterDonor(moved, moved.needed <= 0)
        /\ UNCHANGED exceptRebal

RebalanceForChain_Return ==
    /\ rebal.pc = "done"
    /\ rebal' = RebalIdle
    /\ UNCHANGED exceptRebal

NextRebal ==
    \/ \E bal \in [RebalWallets -> RebalBalances] : RebalanceForChain_Call(bal)
    \/ RebalanceForChain_Receiver
    \/ \E ok \in BOOLEAN : RebalanceForChain_Donor(ok)
    \/ RebalanceForChain_Return

(***************************************************************************)
(* Long-running tasks: scanLoop, startDepositBackfillWorker,               *)
(* StartAutoCollect, StartAutoRebalance, all on the root context           *)
(***************************************************************************)
Tasks == {"scanLoop", "backfill", "autoCollect", "autoRebalance"}
\* The tasks whose goroutine runs one cycle before it enters the loop.
RunsOnStart == {"backfill", "autoCollect", "autoRebalance"}

InitTask ==
    /\ ctxCancelled = FALSE
    /\ tickerReady = [t \in Tasks |-> FALSE]
    /\ taskProc = [t \in Tasks |-> "spawned"]

\* The root context is cancelled.
CancelRoot ==
    /\ ~ctxCancelled
    /\ ctxCancelled' = TRUE
    /\ UNCHANGED <<tickerReady, taskProc, exceptTask>>

\* The goroutine starts: the ticker is created and, except in scanLoop, one
\* cycle runs at once, without a look at the context.
Task_Start(t) ==
    /\ taskProc[t] = "spawned"
    /\ taskProc' = [taskProc EXCEPT ![t] =
          IF t \in RunsOnStart THEN "tick" ELSE "select"]
    /\ UNCHANGED <<ctxCancelled, tickerReady, exceptTask>>

\* The interval elapses: the ticker of a task that has not returned sends.
Ticker_Fire(t) ==
    /\ taskProc[t] \in {"select", "tick"}
    /\ ~tickerReady[t]
    /\ tickerReady' = [tickerReady EXCEPT ![t] = TRUE]
    /\ UNCHANGED <<ctxCancelled, taskProc, exceptTask>>

\* select takes <-ctx.Done(): the task returns.
Task_SelectDone(t) ==
    /\ taskProc[t] = "select"
    /\ ctxCancelled
    /\ taskProc' = [taskProc EXCEPT ![t] = "returned"]
    /\ UNCHANGED <<ctxCancelled, tickerReady, exceptTask>>

\* select takes <-ticker.C: a cycle starts.  select picks among the ready
\* cases, with no preference for ctx.Done().
Task_SelectTick(t) ==
    /\ taskProc[t] = "select"
    /\ tickerReady[t]
    /\ tickerReady' = [tickerReady EXCEPT ![t] = FALSE]
    /\ taskProc' = [taskProc EXCEPT ![t] = "tick"]
    /\ UNCHANGED <<ctxCancelled, exceptTask>>

\* The cycle ends (its I/O fails on a cancelled context); back to select.
Task_TickReturns(t) ==
    /\ taskProc[t] = "tick"
    /\ taskProc' = [taskProc EXCEPT ![t] = "select"]
    /\ UNCHANGED <<ctxCancelled, tickerReady, exceptTask>>

NextTask ==
    \/ CancelRoot
    \/ \E t \in Tasks : Task_Start(t)
    \/ \E t \in Tasks : Ticker_Fire(t)
    \/ \E t \in Tasks : Task_SelectDone(t)
    \/ \E t \in Tasks : Task_SelectTick(t)
    \/ \E t \in Tasks : Task_TickReturns(t)

(***************************************************************************)
(* Seed manager: Initialize, GetSeed, Clear under manager.mu               *)
(***************************************************************************)
SeedProcs == 1..NumSeedProcs
SeedMnemonics == {1, 2}
SeedBuffers == 1..(NumSeedProcs + 2)
\* pbkdf2.Key: pbkdf2KeyLength bytes, none of them zero here, that differ
\* between the mnemonics.
Pbkdf2Key(mnemonic) == [k \in 1..pbkdf2KeyLength |-> 10 * mnemonic + k]
ZeroBuffer == [k \in 1..pbkdf2KeyLength |-> 0]
\* What a caller writes into a copy it was given.
CallerBytes == {0, 99}

SeedIdle == [pc |-> "idle", buf |-> 0, idx |-> 0, result |-> <<>>,
             mnemonic |-> 0, returns |-> 0, written |-> FALSE, late |-> FALSE]

InitSeedMgr ==
    /\ seedHeap = [b \in SeedBuffers |-> <<>>]
    /\ seedMgr = [seed |-> 0, initialized |-> FALSE]
    /\ seedMu = [writer |-> 0, readers |-> {}]
    /\ seedProc = [p \in SeedProcs |-> SeedIdle]
    /\ seedInstalled = {}

\* Buffers something still points to: manager.seed and the callers' slices.
LiveBuffers == {seedMgr.seed} \cup {seedProc[p].buf : p \in SeedProcs}
FreshBuffer == CHOOSE b \in SeedBuffers : b \notin LiveBuffers

\* A caller drops what its last call returned and starts a new call.
Seed_Call(p, op, mnemonic) ==
    /\ seedProc[p].pc \in {"idle", "returned"}
    /\ seedProc[p].returns < MaxSeedCalls
    /\ seedProc' = [seedProc EXCEPT ![p] =
          [SeedIdle EXCEPT !.pc = op, !.mnemonic = mnemonic,
                           !.returns = seedProc[p].returns,
                           !.late = \E q \in SeedProcs : seedProc[q].written]]
    /\ UNCHANGED <<seedHeap, seedMgr, seedMu, seedInstalled, exceptSeed>>

\* m.mu.Lock()
Seed_Lock(p) ==
    /\ seedProc[p].pc \in {"Initialize", "Clear"}
    /\ seedMu.writer = 0
    /\ seedMu.readers = {}
    /\ seedMu' = [seedMu EXCEPT !.writer = p]
    /\ seedProc' = [seedProc EXCEPT ![p].pc =
          IF seedProc[p].pc = "Initialize" THEN "init_locked" ELSE "clear_locked"]
    /\ UNCHANGED <<seedHeap, seedMgr, seedInstalled, exceptSeed>>

\* Initialize: seed := pbkdf2.Key(...); m.seed = seed; m.initialized = true.
Initialize_Store(p) ==
    /\ seedProc[p].pc = "init_locked"
    /\ seedHeap' = [seedHeap EXCEPT ![FreshBuffer] = Pbkdf2Key(seedProc[p].mnemonic)]
    /\ seedMgr' = [seed |-> FreshBuffer, initialized |-> TRUE]
    /\ seedProc' = [seedProc EXCEPT ![p].pc = "init_stored"]
    /\ UNCHANGED <<seedMu, seedInstalled, exceptSeed>>

\* Initialize returns nil: the deferred Unlock runs.
Initialize_Return(p) ==
    /\ seedProc[p].pc = "init_stored"
    /\ seedMu' = [seedMu EXCEPT !.writer = 0]
    /\ seedInstalled' = seedInstalled \cup {Pbkdf2Key(seedProc[p].mnemonic)}
    /\ seedProc' = [seedProc EXCEPT ![p].pc = "returned", ![p].returns = @ + 1]
    /\ UNCHANGED <<seedHeap, seedMgr, exceptSeed>>

\* Clear: one pass of `for i := range m.seed { m.seed[i] = 0 }`, then
\* m.seed = nil, m.initialized = false and the deferred Unlock.
Clear_Step(p) ==
    LET i == seedProc[p].idx + 1 IN
    /\ seedProc[p].pc = "clear_locked"
    /\ IF seedMgr.seed # 0 /\ i <= Len(seedHeap[seedMgr.seed])
       THEN /\ seedHeap' = [seedHeap EXCEPT ![seedMgr.seed][i] = 0]
            /\ seedProc' = [seedProc EXCEPT ![p].idx = i]
            /\ UNCHANGED <<seedMgr, seedMu>>
       ELSE /\ seedHeap' = IF seedMgr.seed = 0 \/ seedMgr.seed \in
                                {seedProc[q].buf : q \in SeedProcs}
                           THEN seedHeap
                           ELSE [seedHeap EXCEPT ![seedMgr.seed] = <<>>]
            /\ seedMgr' = [seed |-> 0, initialized |-> FALSE]
            /\ seedMu' = [seedMu EXCEPT !.writer = 0]
            /\ seedProc' = [seedProc EXCEPT ![p].pc = "returned",
                                            ![p].returns = @ + 1]
    /\ UNCHANGED <<seedInstalled, exceptSeed>>

\* m.mu.RLock()
GetSeed_RLock(p) ==
    /\ seedProc[p].pc = "GetSeed"
    /\ seedMu.writer = 0
    /\ seedMu' = [seedMu EXCEPT !.readers = @ \cup {p}]
    /\ seedProc' = [seedProc EXCEPT ![p].pc = "get_locked"]
    /\ UNCHANGED <<seedHeap, seedMgr, seedInstalled, exceptSeed>>

\* The slice GetSeed hands out: a new one, not m.seed.
SeedCopy_Alias(seed, fresh) == seed
SeedCopy(seed, fresh) == fresh

\* GetSeed: nil when not initialized (the deferred RUnlock runs), else
\* seedCopy := make([]byte, len(m.seed)).
GetSeed_Make(p) ==
    /\ seedProc[p].pc = "get_locked"
    /\ IF ~seedMgr.initialized \/ seedMgr.seed = 0
       THEN /\ seedMu' = [seedMu EXCEPT !.readers = @ \ {p}]
            /\ seedProc' = [seedProc EXCEPT ![p].pc = "returned",
                                            ![p].returns = @ + 1]
            /\ UNCHANGED seedHeap
       ELSE /\ seedHeap' = [seedHeap EXCEPT ![SeedCopy(seedMgr.seed, FreshBuffer)] =
                                [k \in 1..Len(seedHeap[seedMgr.seed]) |->
                                    IF SeedCopy(seedMgr.seed, FreshBuffer) = seedMgr.seed
                                    THEN seedHeap[seedMgr.seed][k] ELSE 0]]
            /\ seedProc' = [seedProc EXCEPT ![p].pc = "get_copy",
                                ![p].buf = SeedCopy(seedMgr.seed, FreshBuffer)]
            /\ UNCHANGED seedMu
    /\ UNCHANGED <<seedMgr, seedInstalled, exceptSeed>>

\* GetSeed: copy(seedCopy, m.seed), one byte a step, then the return with
\* the deferred RUnlock.
GetSeed_Copy(p) ==
    LET i == seedProc[p].idx + 1
        b == seedProc[p].buf
    IN  /\ seedProc[p].pc = "get_copy"
        /\ IF i <= Len(seedHeap[b])
           THEN /\ seedHeap' = [seedHeap EXCEPT ![b][i] = seedHeap[seedMgr.seed][i]]
                /\ seedProc' = [seedProc EXCEPT ![p].idx = i]
                /\ UNCHANGED seedMu
           ELSE /\ seedMu' = [seedMu EXCEPT !.readers = @ \ {p}]
                /\ seedProc' = [seedProc EXCEPT ![p].pc = "returned",
                                    ![p].result = seedHeap[b],
                                    ![p].returns = @ + 1]
                /\ UNCHANGED seedHeap
        /\ UNCHANGED <<seedMgr, seedInstalled, exceptSeed>>

\* The caller writes into the slice GetSeed gave it.
Caller_Write(p, v) ==
    /\ seedProc[p].pc = "returned"
    /\ seedProc[p].buf # 0
    /\ ~seedProc[p].written
    /\ seedHeap' = [seedHeap EXCEPT ![seedProc[p].buf][1] = v]
    /\ seedProc' = [seedProc EXCEPT ![p].written = TRUE]
    /\ UNCHANGED <<seedMgr, seedMu, seedInstalled, exceptSeed>>

NextSeed ==
    \/ \E p \in SeedProcs, m \in SeedMnemonics : Seed_Call(p, "Initialize", m)
    \/ \E p \in SeedProcs : Seed_Call(p, "GetSeed", 0)
    \/ \E p \in SeedProcs : Seed_Call(p, "Clear", 0)
    \/ \E p \in SeedProcs : Seed_Lock(p)
    \/ \E p \in SeedProcs : Initialize_Store(p)
    \/ \E p \in SeedProcs : Initialize_Return(p)
    \/ \E p \in SeedProcs : Clear_Step(p)
    \/ \E p \in SeedProcs : GetSeed_RLock(p)
    \/ \E p \in SeedProcs : GetSeed_Make(p)
    \/ \E p \in SeedProcs : GetSeed_Copy(p)
    \/ \E p \in SeedProcs, v \in CallerBytes : Caller_Write(p, v)

(***************************************************************************)
(* RPCClient: NewRPCClient and getClient                                   *)
(***************************************************************************)
Endpoints == 0..(NumEndpoints - 1)
RpcCallers == 1..NumRpcCallers
RpcUnavailable == "all RPC clients are unavailable"

\* failed: the endpoints whose probe or reconnect failed in this call.
RpcIdle == [pc |-> "idle", i |-> 0, idx |-> 0, failed |-> {},
            result |-> "none", calls |-> 0]

InitRpc ==
    /\ rpcBuilt = FALSE
    /\ rpcClients = [e \in Endpoints |-> FALSE]
    /\ rpcCurrent = 0
    /\ rpcReaders = {}
    /\ rpcProc = [p \in RpcCallers |-> RpcIdle]

\* NewRPCClient: every URL is dialled, a failed one leaves nil; the client
\* is returned unless every entry is nil.
NewRPCClient(dialled) ==
    /\ ~rpcBuilt
    /\ \E e \in Endpoints : dialled[e]
    /\ rpcBuilt' = TRUE
    /\ rpcClients' = dialled
    /\ UNCHANGED <<rpcCurrent, rpcReaders, rpcProc, exceptRpc>>

\* getClient is called: c.mu.RLock().
GetClient_RLock(p) ==
    /\ rpcBuilt
    /\ rpcProc[p].pc \in {"idle", "returned"}
    /\ rpcProc[p].calls < MaxRpcCalls
    /\ rpcReaders' = rpcReaders \cup {p}
    /\ rpcProc' = [rpcProc EXCEPT ![p] =
          [RpcIdle EXCEPT !.pc = "loop", !.calls = rpcProc[p].calls]]
    /\ UNCHANGED <<rpcBuilt, rpcClients, rpcCurrent, exceptRpc>>

\* The endpoint pass i of the loop looks at.
RpcIndex(current, i) == (current + i) % NumEndpoints

\* One pass of the loop, under the read lock: past the last pass the error
\* is returned; a connected endpoint is probed with ChainID (ok); the lock
\* is released to record a new current index or to reconnect.
GetClient_Probe(p, ok) ==
    LET proc == rpcProc[p]
        idx == RpcIndex(rpcCurrent, proc.i)
    IN  /\ proc.pc = "loop"
        /\ IF proc.i >= NumEndpoints
           THEN /\ rpcProc' = [rpcProc EXCEPT ![p].pc = "returned",
                                   ![p].result = RpcUnavailable,
                                   ![p].calls = @ + 1]
                /\ rpcReaders' = rpcReaders \ {p}
           ELSE IF rpcClients[idx] /\ ok
           THEN IF idx # rpcCurrent
                THEN /\ rpcProc' = [rpcProc EXCEPT ![p].pc = "set_current",
                                        ![p].idx = idx]
                     /\ rpcReaders' = rpcReaders \ {p}
                ELSE /\ rpcProc' = [rpcProc EXCEPT ![p].pc = "returned",
                                        ![p].idx = idx, ![p].result = "client",
                                        ![p].calls = @ + 1]
                     /\ rpcReaders' = rpcReaders \ {p}
           ELSE /\ rpcProc' = [rpcProc EXCEPT ![p].pc = "reconnect",
                                   ![p].idx = idx,
                                   ![p].failed = IF rpcClients[idx]
                                                 THEN @ \cup {idx} ELSE @]
                /\ rpcReaders' = rpcReaders \ {p}
        /\ UNCHANGED <<rpcBuilt, rpcClients, rpcCurrent, exceptRpc>>

\* c.mu.Lock(); c.current = idx; c.mu.Unlock()
GetClient_SetCurrent(p) ==
    /\ rpcProc[p].pc = "set_current"
    /\ rpcReaders = {}
    /\ rpcCurrent' = rpcProc[p].idx
    /\ rpcProc' = [rpcProc EXCEPT ![p].pc = "relock_return"]
    /\ UNCHANGED <<rpcBuilt, rpcClients, rpcReaders, exceptRpc>>

\* Under the write lock: a nil entry is dialled (ok); on success the entry
\* and the current index are set and the client is returned; an entry that
\* is not nil is left alone.
GetClient_Reconnect(p, ok) ==
    LET idx == rpcProc[p].idx IN
    /\ rpcProc[p].pc = "reconnect"
    /\ rpcReaders = {}
    /\ IF ~rpcClients[idx] /\ ok
       THEN /\ rpcClients' = [rpcClients EXCEPT ![idx] = TRUE]
            /\ rpcCurrent' = idx
            /\ rpcProc' = [rpcProc EXCEPT ![p].pc = "relock_return"]
       ELSE /\ rpcProc' = [rpcProc EXCEPT ![p].pc = "relock_loop",
                               ![p].failed = IF rpcClients[idx]
                                             THEN @ ELSE @ \cup {idx}]
            /\ UNCHANGED <<rpcClients, rpcCurrent>>
    /\ UNCHANGED <<rpcBuilt, rpcReaders, exceptRpc>>

\* c.mu.RLock() again: the client is returned (the deferred RUnlock runs),
\* or the loop goes to its next pass.
GetClient_Relock(p) ==
    /\ rpcProc[p].pc \in {"relock_return", "relock_loop"}
    /\ IF rpcProc[p].pc = "relock_return"
       THEN /\ rpcProc' = [rpcProc EXCEPT ![p].pc = "returned",
                               ![p].result = "client",
                               ![p].calls = @ + 1]
            /\ UNCHANGED rpcReaders
       ELSE /\ rpcProc' = [rpcProc EXCEPT ![p].pc = "loop", ![p].i = @ + 1]
            /\ rpcReaders' = rpcReaders \cup {p}
    /\ UNCHANGED <<rpcBuilt, rpcClients, rpcCurrent, exceptRpc>>

NextRpc ==
    \/ \E dialled \in [Endpoints -> BOOLEAN] : NewRPCClient(dialled)
    \/ \E p \in RpcCallers : GetClient_RLock(p)
    \/ \E p \in RpcCallers, ok \in BOOLEAN : GetClient_Probe(p, ok)
    \/ \E p \in RpcCallers : GetClient_SetCurrent(p)
    \/ \E p \in RpcCallers, ok \in BOOLEAN : GetClient_Reconnect(p, ok)
    \/ \E p \in RpcCallers : GetClient_Relock(p)

InitSvc ==
    /\ InitAnalyzer /\ InitCollect /\ InitStart /\ InitRebal /\ InitTask
    /\ InitSeedMgr /\ InitRpc

(***************************************************************************)
(* Specifications                                                          *)
(***************************************************************************)
Init ==
    /\ InitNonce /\ InitAddr /\ InitLedger /\ InitWithdraw /\ InitDeposit
    /\ InitScan /\ InitKeystore /\ InitSend /\ InitSvc

\* The state after CreateWallet(u1, 1), CreateWallet(u2, 1) and
\* CreateHotWallet(u1, 1, "") ran one after the other on the empty store.
WalletsSeeded ==
    /\ address_indexes = {[id |-> 1, device_name |-> NULL, current_index |-> 2]}
    /\ wallets = {[user_id |-> "u1", chain_id |-> 1, address_index |-> 0,
                   wallet_type |-> "user"],
                  [user_id |-> "u2", chain_id |-> 1, address_index |-> 1,
                   wallet_type |-> "user"],
                  [user_id |-> "u1", chain_id |-> 1, address_index |-> 2,
                   wallet_type |-> "hot"]}
    /\ addrProc = [p \in AddrProcs |-> AddrIdle]
    /\ addrReturned = <<0, 1, 2>>
    /\ addrFresh = TRUE
    /\ addrOverlap = FALSE
    /\ lastWalletCall = NoWalletCall
    /\ wallet_nonces = {[key |-> <<2, 1>>, nonce |-> 0]}
    /\ nonceLock = [k \in NonceKeys |-> {}]
    /\ nonceProc = [p \in NonceProcs |-> NonceIdle]
    /\ nonceLog = [k \in NonceKeys |-> <<>>]
    /\ nonceOverlap = FALSE

\* The keystore the seeded wallets were derived from.
KeystoreSeeded ==
    /\ keystore = {NewKeystore("m1")}
    /\ ksProc = [p \in KsProcs |-> KsIdle]

InitSeeded ==
    /\ WalletsSeeded /\ InitLedger /\ InitWithdraw /\ InitDeposit /\ InitScan
    /\ KeystoreSeeded
    /\ InitSend
    /\ InitSvc

SpecNonce == Init /\ [][NextNonce]_vars
SpecAddr == Init /\ [][NextAddr]_vars
SpecCreateWallet == Init /\ [][NextCreateWallet]_vars
SpecWithdraw == InitSeeded /\ [][NextWithdraw]_vars
SpecDeposit == InitSeeded /\ [][NextDeposit]_vars

\* One request handler, its background processing and the status update, with
\* transactions that succeed or revert on chain.
NextWithdrawReceipt ==
    \/ \E u \in Users, t \in TokenIds, a \in 1..MaxAmount :
          DepositCredited(u, t, a)
    \/ \E u \in Users, t \in TokenIds, a \in 1..MaxAmount :
          RequestWithdraw_Check(1, u, t, a)
    \/ RequestWithdraw_Insert(1)
    \/ ProcessWithdraw_Lock(1)
    \/ ProcessWithdraw_Nonce(1)
    \/ ProcessWithdraw_Broadcast(1)
    \/ ProcessWithdraw_Commit(1)
    \/ \E wid \in 1..MaxWithdraws, b \in 1..MaxMinedBlock : WithdrawMined(wid, b)
    \/ \E wid \in 1..MaxWithdraws, b \in 1..MaxMinedBlock :
          WithdrawMinedFailed(wid, b)
    \/ \E latest \in 0..MaxLatest : UpdateWithdrawStatus_Load(latest)
    \/ UpdateWithdrawStatus_Step

SpecWithdrawReceipt == InitSeeded /\ [][NextWithdrawReceipt]_vars

\* The post-scan hook alone, with the credit update of a run failing or not.
NextDepositSync ==
    \/ \E tx \in ChainTxs, b \in 1..MaxMinedBlock : DepositRecorded(tx, b)
    \/ \E p \in DepProcs, latest \in 0..MaxLatest :
          UpdateConfirmationStatus_Load(p, latest)
    \/ \E p \in DepProcs : UpdateConfirmationStatus_Step(p)
    \/ \E p \in DepProcs : UpdateConfirmationStatus_Credit(p)
    \/ \E p \in DepProcs : UpdateConfirmationStatus_CreditFail(p)
    \/ \E p \in DepProcs : ProcessFinalizedDeposits_Hook(p)
    \/ \E p \in DepProcs : ProcessDeposit_Check(p)
    \/ \E p \in DepProcs : ProcessDeposit_Create(p)

SpecDepositSync == InitSeeded /\ [][NextDepositSync]_vars
SpecScan == InitSeeded /\ [][NextScan]_vars

\* The scan loop alone, with block fetches that can fail.
NextScanLoop ==
    \/ \E withTx \in BOOLEAN : ChainGrow(withTx)
    \/ \E r \in 1..MaxHeight : ChainReorg(r)
    \/ ScanLoop_Start("loop")
    \/ ScanLoop_Tick("loop")
    \/ ScanBlock_Fetch("loop")
    \/ ScanBlock_FetchFail("loop")
    \/ RollbackBlock("loop")
    \/ ScanBlock_Exists("loop")
    \/ SaveBlock("loop")
    \/ \E ok \in BOOLEAN : ProcessBlockTransactions("loop", ok)
    \/ RunPostScanHooks("loop")

\* What the loop does when its ticker fires and the calls it makes return.
ScanLoopStep ==
    \/ ScanLoop_Start("loop")
    \/ ScanLoop_Tick("loop")
    \/ ScanBlock_Fetch("loop")
    \/ RollbackBlock("loop")
    \/ ScanBlock_Exists("loop")
    \/ SaveBlock("loop")
    \/ ProcessBlockTransactions("loop", TRUE)
    \/ RunPostScanHooks("loop")

SpecAdmin == InitSeeded /\ [][NextAdmin]_vars
SpecKeystore == Init /\ [][NextKeystore]_vars
SpecSend == InitSeeded /\ [][NextSend]_vars
SpecAnalyzer == InitSeeded /\ [][NextAnalyzer]_vars
SpecCollect == InitSeeded /\ [][NextCollect]_vars
SpecStart == InitSeeded /\ [][NextStart]_vars
SpecRebal == InitSeeded /\ [][NextRebal]_vars
SpecTask == InitSeeded /\ [][NextTask]_vars
SpecSeed == InitSeeded /\ [][NextSeed]_vars
SpecRpc == InitSeeded /\ [][NextRpc]_vars

\* The gas top-up of the collect service, the scanner and the post-scan hook.
NextTopUp ==
    \/ EnsureNativeGas_PendingNonceAt("collect")
    \/ SendTransaction("collect")
    \/ WaitForReceipt("collect")
    \/ \E b \in 1..MaxMinedBlock : TopUpScanned(b)
    \/ \E latest \in 0..MaxLatest : UpdateConfirmationStatus_Load("hook", latest)
    \/ UpdateConfirmationStatus_Step("hook")
    \/ UpdateConfirmationStatus_Credit("hook")
    \/ ProcessFinalizedDeposits_Hook("hook")
    \/ ProcessDeposit_Check("hook")
    \/ ProcessDeposit_Create("hook")

SpecTopUp == InitSeeded /\ [][NextTopUp]_vars

\* The loop keeps running and the chain keeps growing up to the modelled
\* height.
SpecScanLoop ==
    /\ InitSeeded
    /\ [][NextScanLoop]_vars
    /\ WF_vars(ScanLoopStep)
    /\ WF_vars(ChainGrow(FALSE))

(***************************************************************************)
(* Claims                                                                  *)
(***************************************************************************)

\* C2: for every (address, chain_id) with a wallet_nonces row, the values
\* returned by the GetNextNonce calls that committed are pairwise different
\* and increase in commit order, also for calls that ran concurrently.
C2_NonceMonotonic ==
    \A k \in NonceKeys :
       \A i, j \in 1..Len(nonceLog[k]) : i < j => nonceLog[k][i] < nonceLog[k][j]

\* C2 witness: two calls on one row committed, one of them while the other
\* was in flight.
C2_Witness ==
    \E k \in NonceKeys : Len(nonceLog[k]) >= 2 /\ nonceOverlap

\* C9: any two GetNextAddressIndex calls for chain type evm return different
\* indices, and each returned index is greater than the address_index of every
\* wallet persisted before.
C9_AllocationAtomic ==
    /\ \A i, j \in 1..Len(addrReturned) :
          i < j => addrReturned[i] # addrReturned[j]
    /\ addrFresh

\* C10: after any sequence of CreateWallet and CreateHotWallet calls, run one
\* after the other and each either successful or failing, the address_index
\* values of the wallets are pairwise different and form {0, ..., k-1}.
C10_IndexPrefix ==
    (~addrOverlap /\ \A p \in AddrProcs : addrProc[p].pc = "idle") =>
       LET S == {w.address_index : w \in wallets} IN
       /\ Cardinality(S) = Cardinality(wallets)
       /\ S = 0..(Cardinality(S) - 1)
\* The sum of the finalized credits of a (user, chain, token).
FinalizedSum(user, chain, token) ==
    SumAmounts({c \in credits :
        /\ c.user_id = user /\ c.chain_id = chain /\ c.token_id = token
        /\ c.status = "finalized"})

Abs(n) == IF n < 0 THEN 0 - n ELSE n

\* A withdraw is outstanding until RejectWithdraw releases it.
OutstandingWithdraws(user) ==
    {w.id : w \in {x \in withdraws : x.user_id = user}} \ wdRejected

\* The sum of |amount| of the credits of the outstanding withdraws.
OutstandingHold(user, chain, token) ==
    SumAmounts({[c EXCEPT !.amount = Abs(c.amount)] : c \in {x \in credits :
        /\ x.user_id = user /\ x.chain_id = chain /\ x.token_id = token
        /\ x.credit_type = "withdraw" /\ x.reference_type = "withdraw"
        /\ x.reference_id \in OutstandingWithdraws(user)}})

\* C3: in every reachable state and for every (user, chain, token),
\* GetAvailableBalance is the sum of the user's finalized credits minus the
\* sum of |amount| of the credits of the user's outstanding withdraws.
C3_AvailableBalanceEquation ==
    \A u \in Users, c \in Chains, t \in TokenIds :
       GetAvailableBalance(u, c, t)
          = FinalizedSum(u, c, t) - OutstandingHold(u, c, t)

\* C3 witness: a user with a finalized deposit has a released withdraw and an
\* outstanding withdraw that holds the whole deposit.
C3_Witness ==
    \E u \in Users, t \in TokenIds :
       /\ FinalizedSum(u, 1, t) > 0
       /\ OutstandingHold(u, 1, t) = FinalizedSum(u, 1, t)
       /\ \E w \in withdraws : w.user_id = u /\ w.id \in wdRejected

AllowedWithdrawEdges ==
    {<<"user_withdraw_request", "pending">>,
     <<"user_withdraw_request", "failed">>,
     <<"pending", "processing">>,
     <<"pending", "confirmed">>,
     <<"processing", "confirmed">>}

\* C4: every change of a withdraw's status follows the documented state
\* machine; a withdraw in pending, processing or confirmed never becomes failed
\* and never returns to an earlier status.
C4_WithdrawStateMachine ==
    [][\A w \in withdraws : \A x \in withdraws' :
          (x.id = w.id /\ x.status # w.status)
             => <<w.status, x.status>> \in AllowedWithdrawEdges]_vars

\* C4 case: a withdraw whose transaction was broadcast and that reached
\* pending is failed.
C4_PendingFailed ==
    \E w \in withdraws : w.status = "failed" /\ w.tx_hash # NULL

\* C1: a deposit transaction never has more than one credit row referencing
\* it, and once it is finalized and a backfill run has completed, that row
\* exists with credit_type deposit and status finalized; with the post-scan
\* hook and the backfill worker running ProcessFinalizedDeposits repeatedly
\* and concurrently.
C1_ExactlyOneFinalizedCredit ==
    \A t \in {x \in transactions : x.type = "deposit"} :
       LET refs == {c \in credits : /\ c.reference_id = t.id
                                    /\ c.reference_type = "blockchain_tx"} IN
       /\ Cardinality(refs) <= 1
       /\ (t.status = "finalized" /\ t.id \in backfilled) =>
             \E c \in refs : c.credit_type = "deposit" /\ c.status = "finalized"

\* The first half of C1 alone: never more than one credit row per deposit.
AtMostOneCreditPerDeposit ==
    \A t \in transactions :
       Cardinality({c \in credits : /\ c.reference_id = t.id
                                    /\ c.reference_type = "blockchain_tx"}) <= 1

\* The blocks row of a hash, as a set (empty: not stored).
BlockRows(hash) == {b \in blocks : b.hash = hash}

\* The history B1, B2, B3 was ingested and the chain replaced it by B1, B2',
\* B3'; the chain has not grown beyond B3' yet.
ReplacedHistoryIngested ==
    /\ node.forkAt = 2
    /\ node.tip = 3
    /\ \A h \in 1..3 : BlockRows(BlockHash(h, "a")) # {}

\* B2 and B3 are orphaned, B2' and B3' are stored and not orphaned, and the
\* credits of the deposits of B2 and B3 are failed.
ScannerConverged ==
    /\ \A h \in 2..3 :
          /\ \A b \in BlockRows(BlockHash(h, "a")) : b.status = "orphaned"
          /\ \E b \in BlockRows(BlockHash(h, "b")) : b.status # "orphaned"
    /\ \A t \in transactions : \A c \in credits :
          (/\ t.block_hash \in {BlockHash(2, "a"), BlockHash(3, "a")}
           /\ c.reference_id = t.id /\ c.reference_type = "blockchain_tx")
          => c.status = "failed"

\* C5: once the scanner has ingested B1, B2, B3 and the canonical history has
\* become B1, B2', B3' (and keeps growing), the scanner eventually reaches a
\* state where B2 and B3 are orphaned, B2' and B3' are stored as non-orphaned
\* rows and every credit that referenced B2 or B3 is failed.
C5_ReorgConverges == ReplacedHistoryIngested ~> ScannerConverged

\* scanBlock of scanner s returns nil in this step.
ScanBlockReturnsNil(s) ==
    /\ scanProc[s].pc \in {"exists", "txs"}
    /\ scanProc'[s].pc \in {"fetch", "hooks"}

\* C6: when the scan of block N triggered a rollback and returns, the block N
\* it fetched is stored as a non-orphaned row.
C6_RollbackReacceptsBlock ==
    [][\A s \in Scanners :
          (scanProc[s].rolled /\ ScanBlockReturnsNil(s))
          => \E b \in blocks' : /\ b.hash = scanProc[s].block
                                /\ b.status # "orphaned"]_vars

\* A scan that orphaned stored blocks has returned without storing its block.
C6_Witness ==
    \E s \in Scanners :
       /\ scanProc[s].pc = "exists" /\ scanProc[s].rolled
       /\ \E b \in blocks : b.number = scanProc[s].cur /\ b.status = "orphaned"

\* C7: when the scanner processes the transactions of a canonical block that
\* contains a deposit marked failed by a rollback, and its receipt is fetched,
\* the deposit is recorded again: its transactions row is a confirmed deposit
\* of that block.
C7_FailedDepositRerecorded ==
    [][\A s \in Scanners :
          (/\ scanProc[s].pc = "txs" /\ scanProc'[s].pc # "txs"
           /\ ScanTx \in BlockTransactions(scanProc[s].block)
           /\ scanProc[s].block = CanonicalHash(scanProc[s].cur)
           /\ receiptSkipped' = receiptSkipped
           /\ \E t \in transactions : t.id = ScanTx.hash /\ t.status = "failed")
          => \E t \in transactions' :
                /\ t.id = ScanTx.hash /\ t.type = "deposit"
                /\ t.block_hash = scanProc[s].block
                /\ t.status = "confirmed"]_vars

\* C8: for every height at most one blocks row is not orphaned.
C8_OneLiveBlockPerHeight ==
    \A h \in 1..MaxHeight : Cardinality(LiveBlocksAt(h)) <= 1

----------------------------------------------------------------------------
\* Hot-wallet nonce against the broadcasts made from the hot wallet.

\* Number of transactions the node accepted for the withdraws 1..n.
RECURSIVE BroadcastsUpTo(_)
BroadcastsUpTo(n) == IF n = 0 THEN 0 ELSE broadcasts[n] + BroadcastsUpTo(n - 1)

\* No ProcessWithdraw (nor the approve call around it) is under way.
NoOutboundInProgress == \A p \in WdProcs : wdProc[p].pc = "idle"

\* C11: for every hot wallet, whenever no outbound operation is in progress,
\* the stored nonce is the next nonce to use on chain: the values handed out
\* so far (0 .. stored nonce - 1) are as many as the successful broadcasts
\* from the address, one broadcast per handed-out value.
C11_NonceMatchesBroadcasts ==
    NoOutboundInProgress =>
        \A k \in HotWalletKeys :
            HasNonceRow(k) =>
                /\ StoredNonce(k) = Len(nonceLog[k])
                /\ Len(nonceLog[k]) = BroadcastsUpTo(MaxWithdraws)

\* The ProcessWithdraw call that sends for withdraw wid was started by
\* ApproveWithdraw.
SentByApprove(wid) ==
    \E p \in WdProcs : /\ wdProc[p].w = wid
                       /\ wdProc[p].pc = "proc_nonce"
                       /\ wdProc[p].op = "approve"

\* C12: a withdraw's transaction is signed and broadcast only as the result
\* of an administrator's approve call on that withdraw: every step in which
\* the node accepts a transaction for a withdraw is a step of a
\* ProcessWithdraw that ApproveWithdraw started.
C12_BroadcastOnlyByApprove ==
    [][\A wid \in 1..MaxWithdraws :
          broadcasts'[wid] > broadcasts[wid] => SentByApprove(wid)]_vars

\* Positions inside ProcessWithdraw and the error handling around it.
ProcessPositions == {"proc_begin", "proc_locked", "proc_nonce", "proc_sent",
                     "on_error"}

\* Process p returns from its processing attempt in this step.
AttemptReturns(p) ==
    /\ wdProc[p].pc \in ProcessPositions
    /\ wdProc'[p].pc = "idle"

\* The attempt of p ends with the commit of status pending.
AttemptSucceeds(p) ==
    /\ wdProc[p].pc = "proc_sent"
    /\ \E w \in withdraws' : w.id = wdProc[p].w /\ w.status = "pending"
                               /\ w.nonce = {wdProc[p].nonce}

\* C14: whenever a processing attempt of a withdraw fails, whichever caller
\* started it, the withdraw ends in status failed and its paired credit is
\* still frozen: when the attempt returns without having committed pending,
\* the row is failed and a frozen credit references it.
C14_FailedAttemptEndsFailed ==
    [][\A p \in WdProcs :
          (AttemptReturns(p) /\ ~AttemptSucceeds(p)) =>
              /\ \E w \in withdraws' : w.id = wdProc[p].w /\ w.status = "failed"
              /\ \E c \in credits' : /\ c.reference_id = wdProc[p].w
                                     /\ c.reference_type = "withdraw"
                                     /\ c.status = "frozen"]_vars

\* An ApproveWithdraw call on wid passes its status check in this step and
\* goes on to ProcessWithdraw.
ApproveGoesOn(p, wid) ==
    /\ wdProc[p].pc = "idle"
    /\ wdProc'[p].pc = "proc_begin"
    /\ wdProc'[p].op = "approve"
    /\ wdProc'[p].w = wid

\* An ApproveWithdraw call on wid returns the status error in this step.
ApproveRefused(wid) ==
    /\ lastError' # lastError
    /\ lastError'.op = "approve"
    /\ lastError'.w = wid

\* C13: ApproveWithdraw on a withdraw whose status is not
\* user_withdraw_request returns the error 'withdraw status is X, expected
\* user_withdraw_request' and changes nothing: the call never goes on to
\* ProcessWithdraw (and such a status never becomes user_withdraw_request
\* again while the call waits for the row lock), and the step that returns
\* the error names the stored status and leaves the withdraw rows, the
\* credits, the nonces and the broadcasts as they were.
C13_ApproveWrongStatusChangesNothing ==
    [][\A wid \in WithdrawIds :
          /\ WithdrawById(wid).status # "user_withdraw_request" =>
                /\ \A p \in WdProcs : ~ApproveGoesOn(p, wid)
                /\ \A w \in withdraws' :
                      w.id = wid => w.status # "user_withdraw_request"
          /\ ApproveRefused(wid) =>
                /\ WithdrawById(wid).status # "user_withdraw_request"
                /\ lastError'.status = WithdrawById(wid).status
                /\ UNCHANGED <<withdraws, credits, wallet_nonces, nonceLog,
                               broadcasts, wdProc, wdLocked>>]_vars

\* An ApproveWithdraw call was refused for a withdraw that had been sent.
C13_Witness ==
    /\ lastError.op = "approve"
    /\ lastError.status = "pending"
    /\ broadcasts[lastError.w] > 0

\* A RejectWithdraw call on wid succeeds in this step.
RejectSucceeds(wid) == wid \in wdRejected' /\ wid \notin wdRejected

\* A RejectWithdraw call on wid returns an error in this step.
RejectFails(wid) ==
    /\ lastError' # lastError
    /\ lastError'.op = "reject"
    /\ lastError'.w = wid

\* The credits that reference a withdraw.
WithdrawCredits(rows, wid) ==
    {c \in rows : c.reference_id = wid /\ c.reference_type = "withdraw"}

InsertedWithdraws == {w \in withdraws' : w.id \notin WithdrawIds}
InsertedWithdrawCredits ==
    {c \in credits' : /\ c.credit_type = "withdraw"
                      /\ c.id \notin {d.id : d \in credits}}

\* C16: RequestWithdraw is atomic: a step inserts either both a withdraw row
\* with status user_withdraw_request and fee 0 and exactly one credit with
\* credit_type withdraw, status frozen, amount minus the requested amount and
\* reference (withdraw.id, withdraw), or neither of them.
C16_RequestWithdrawAtomic ==
    [][/\ Cardinality(InsertedWithdraws) <= 1
       /\ \A w \in InsertedWithdraws :
             /\ w.status = "user_withdraw_request"
             /\ w.fee = 0
             /\ Cardinality(InsertedWithdrawCredits) = 1
             /\ \A c \in InsertedWithdrawCredits :
                   /\ c.status = "frozen"
                   /\ c.amount = 0 - w.amount
                   /\ c.reference_id = w.id
                   /\ c.reference_type = "withdraw"
                   /\ c.user_id = w.user_id
       /\ InsertedWithdraws = {} => InsertedWithdrawCredits = {}]_vars

\* RequestWithdraw committed: one requested withdraw and its one frozen
\* credit of minus the amount, and no other withdraw credit.
C16_Witness ==
    /\ \E w \in withdraws :
          /\ w.status = "user_withdraw_request"
          /\ \E c \in FrozenCredits(w.id) : c.amount = 0 - w.amount
    /\ Cardinality(withdraws) = 1
    /\ Cardinality({c \in credits : c.credit_type = "withdraw"}) = 1

\* The credits linked to a transaction.
LinkedCredits(rows, txId) ==
    {c \in rows : c.reference_id = txId /\ c.reference_type = "blockchain_tx"}

\* C17: finalized is terminal for the confirmation state machine: once a
\* transaction has status finalized, no step of the confirmation processor,
\* whatever latest block number it runs with, changes its status, and the
\* finalized credits linked to it stay finalized.
C17_FinalizedTerminal ==
    [][\A t \in transactions :
          t.status = "finalized" =>
             /\ \A x \in transactions' : x.id = t.id => x.status = "finalized"
             /\ \A c \in LinkedCredits(credits, t.id) :
                   c.status = "finalized" =>
                      \A d \in credits' : d.id = c.id => d.status = "finalized"]_vars

\* The UpdateConfirmationStatus call of p returns in this step.
UpdateConfirmationStatusReturns(p) ==
    /\ depProc[p].pc \in {"conf_iter", "conf_credit"}
    /\ depProc'[p].pc = "bf_load"

\* C18: after UpdateConfirmationStatus(chain, latest) completes without
\* error, every transaction that was in confirmed, safe or finalized and has
\* conf = latest - block_no >= 0 has the status of its confirmation count
\* (finalized from finalized_blocks on, safe from confirmation_blocks on,
\* confirmed below) and confirmation_count = conf.
C18_StatusAfterConfirmationUpdate ==
    [][\A p \in DepProcs :
          UpdateConfirmationStatusReturns(p) =>
             \A t \in transactions' :
                (t.id \in depProc[p].seen /\ depProc[p].latest - t.block_no >= 0) =>
                   /\ t.status = TransactionStatusFor(depProc[p].latest - t.block_no)
                   /\ t.confirmation_count = depProc[p].latest - t.block_no]_vars

\* Scanner s is inside scanBlock, before its own insert, on a fetched block
\* whose row (same hash, not orphaned) is in blocks, and takes a step.
ScansStoredBlock(s) ==
    /\ scanProc[s].pc \in {"rollback", "exists"}
    /\ \E b \in blocks : b.hash = scanProc[s].block /\ b.status # "orphaned"
    /\ scanProc'[s] # scanProc[s]

\* C19: scanning a block that is already stored in blocks changes no row in
\* blocks, transactions or credits: no block is orphaned, no transaction or
\* credit changes status, and no row is inserted.
C19_RescanChangesNothing ==
    [][\A s \in Scanners :
          ScansStoredBlock(s) =>
             /\ UNCHANGED <<blocks, transactions, credits>>
             /\ scanProc'[s].pc # "save"]_vars

\* C20: after any sequence of CreateKeystore calls, concurrent ones included,
\* the keystore table holds at most one row; a call made while a row exists
\* fails with 'keystore already exists' and leaves the stored row unchanged.
C20_SingleKeystore ==
    /\ Cardinality(keystore) <= 1
    /\ \A p \in KsProcs :
          ksProc[p].seen # {} =>
             /\ keystore = ksProc[p].seen
             /\ ksProc[p].pc \in {"check", "done"}
             /\ ksProc[p].pc = "done" =>
                   ksProc[p].result = "keystore already exists"

\* Two concurrent calls, of which one stored its row and the other failed at
\* the insert, and a later call that was refused by the existence check.
C20_Witness ==
    \E p, q, r \in KsProcs :
       /\ ksProc[p].result = "ok"
       /\ ksProc[q].result = "failed to insert keystore"
       /\ ksProc[r].seen # {} /\ ksProc[r].result = "keystore already exists"

\* A CreateWallet call for a (user, chain) that has a wallet returns in this
\* step.
CreateWalletOnExisting ==
    /\ lastWalletCall' # lastWalletCall
    /\ \E w \in wallets : /\ w.user_id = lastWalletCall'.user
                          /\ w.chain_id = lastWalletCall'.chain

\* C21: CreateWallet for a (user, chain) pair that already has a wallet
\* surfaces a state-conflict error to the caller, allocates no address index
\* and inserts no row.
C21_CreateWalletConflict ==
    [][CreateWalletOnExisting =>
          /\ lastWalletCall'.error # NULL
          /\ UNCHANGED <<address_indexes, wallets, addrReturned>>]_vars

\* C22: once a withdraw's transaction has been broadcast, its paired credit
\* is never released: the credit stays frozen and RejectWithdraw has not
\* succeeded on the withdraw, under any interleaving of approve, process,
\* reject and UpdateWithdrawStatus calls.
C22_BroadcastHoldKept ==
    \A wid \in WithdrawIds :
       broadcasts[wid] > 0 =>
          /\ \A c \in WithdrawCredits(credits, wid) : c.status = "frozen"
          /\ wid \notin wdRejected

\* C23: for every withdraw at most one transaction is ever broadcast,
\* whatever the number and interleaving of ApproveWithdraw and
\* ProcessWithdraw calls on it and whichever step of an attempt fails.
C23_AtMostOneBroadcast ==
    \A wid \in 1..MaxWithdraws : broadcasts[wid] <= 1

\* C24: the available balance of a (user, chain, token) never becomes
\* negative through withdraw requests, also when several requests of the same
\* user run concurrently: every committed frozen credit was covered by the
\* available balance at its commit.
C24_BalanceNeverNegative ==
    \A u \in Users, c \in Chains, t \in TokenIds :
       GetAvailableBalance(u, c, t) >= 0

\* C25: every transaction broadcast from a hot-wallet address carries a
\* nonce obtained from GetNextNonce for that (address, chain), so no two
\* broadcasts from the hot wallet carry the same nonce.
C25_BroadcastNonceAllocated ==
    /\ \A b \in hotSent :
          /\ b.allocated
          /\ \E k \in HotWalletKeys :
                \E i \in 1..Len(nonceLog[k]) : nonceLog[k][i] = b.nonce
    /\ \A b1, b2 \in hotSent : b1.nonce = b2.nonce => b1 = b2

\* The step with which handleReorg returns nil after rolling back the blocks
\* it had loaded.
HandleReorgReturns(s) ==
    /\ scanProc[s].pc = "rollback"
    /\ scanProc'[s].pc # "rollback"

\* C26: when the scan of block N finds that the stored non-orphaned block at
\* height N-1 is not N's parent, then after the rollback every block that was
\* non-orphaned above height N-1 is orphaned, every transaction on those
\* blocks is failed and every credit with the block number of one of those
\* blocks is failed.
C26_RollbackComplete ==
    [][\A s \in Scanners :
         HandleReorgReturns(s) =>
            \A o \in scanProc[s].loaded :
               /\ \A b \in blocks' : b.hash = o.hash => b.status = "orphaned"
               /\ \A t \in transactions' :
                     t.block_hash = o.hash => t.status = "failed"
               /\ \A c \in credits' :
                     (c.chain_id = 1 /\ c.block_number = {o.number})
                        => c.status = "failed"]_vars

\* No confirmation update or backfill is running and no scanner is inside a
\* rollback.
NoStatusRunInProgress ==
    /\ \A p \in DepProcs : depProc[p].pc = "idle"
    /\ \A s \in Scanners : scanProc[s].pc \notin {"rollback", "hooks"}

\* C27: whenever no confirmation run or rollback is in progress, every credit
\* with reference_type = blockchain_tx has the status the mapping table
\* assigns to the current status of its transaction: confirmed for confirmed
\* or safe, finalized for finalized, failed for failed.
C27_CreditStatusFollowsTransaction ==
    NoStatusRunInProgress =>
       \A c \in credits : \A t \in transactions :
          (/\ c.reference_type = "blockchain_tx"
           /\ c.reference_id = t.id
           /\ t.status \in {"confirmed", "safe", "finalized", "failed"})
             => c.status = MapTransactionToCreditStatus(t.status)

\* C28: a withdraw whose on-chain transaction has a failed receipt (its
\* transactions row has status failed) never reaches status confirmed.
C28_FailedReceiptNeverConfirmed ==
    \A w \in withdraws : \A m \in wdMined :
       (m.id = w.id /\ ReceiptTransactionStatus(m) = "failed")
          => w.status # "confirmed"

\* C29: a transfer sent by one of the system's own wallets (a hot-wallet gas
\* top-up to a user wallet, a sweep, a rebalance) never produces a deposit
\* credit for any user.
C29_NoCreditForSystemTransfer ==
    \A c \in credits :
       (c.credit_type = "deposit" /\ c.reference_type = "blockchain_tx")
          => c.reference_id # TopUpTx.hash

\* ProcessWithdraw, step 5: the stored amount is parsed as a decimal number and
\* multiplied by 10^decimals; the integer part is the value of the transfer.
AmountToWei(amount, decimals) == amount * (10 ^ decimals)

\* The value ProcessWithdraw puts into the transaction of a withdraw.
BroadcastValue(w) == AmountToWei(w.amount, TokenDecimals)

\* C30: all ledger amounts are in base units: for every withdraw, the absolute
\* amount of its frozen credit equals the base-unit value that processing puts
\* into the broadcast transaction.
C30_FrozenAmountIsBroadcastValue ==
    \A w \in withdraws :
       broadcasts[w.id] > 0 =>
          \A c \in WithdrawCredits(credits, w.id) :
             0 - c.amount = BroadcastValue(w)

\* The height the chain's scan loop started from; that of the temporary
\* scanner while no loop runs.
StartHeight(s) ==
    IF scanProc["loop"].pc # "stopped" THEN scanProc["loop"].start
    ELSE scanProc[s].start

\* scanBlock of scanner s returns an error in this step.
ScanBlockFails(s) ==
    /\ scanProc[s].pc \in {"fetch", "save"}
    /\ scanProc'[s].pc \in {"hooks", "idle"}

\* C31: within one chain block ingestion is sequential by height: whenever a
\* block at height N+1 is persisted, a block at height N, if N is at or above
\* the start height, has already been persisted; and when scanning a block
\* fails, the batch ends and the cursor does not move past the failed block.
C31_SequentialIngestion ==
    [][\A s \in Scanners :
         /\ (scanProc[s].pc = "save" /\ scanProc'[s].pc = "txs") =>
               \A b \in blocks' \ blocks :
                  b.number - 1 >= StartHeight(s)
                     => \E o \in blocks : o.number = b.number - 1
         /\ (s = "loop" /\ ScanBlockFails(s)) =>
               /\ scanProc'[s].pc = "hooks"
               /\ scanProc'[s].currentBlock <= scanProc[s].cur
               /\ blocks' = blocks]_vars

\* C31, amended: each scanner ingests sequentially from its own start height
\* (the temporary scanner of ScanChainBlock starts at the block it is given),
\* and a failed scan ends the loop's batch without moving the cursor past the
\* failed block.
C31_SequentialPerScanner ==
    [][\A s \in Scanners :
         /\ (scanProc[s].pc = "save" /\ scanProc'[s].pc = "txs") =>
               \A b \in blocks' \ blocks :
                  b.number - 1 >= scanProc[s].start
                     => \E o \in blocks : o.number = b.number - 1
         /\ (s = "loop" /\ ScanBlockFails(s)) =>
               /\ scanProc'[s].pc = "hooks"
               /\ scanProc'[s].currentBlock <= scanProc[s].cur
               /\ blocks' = blocks]_vars

\* The loop has just persisted a block above its start height, the block
\* below being stored.
C31_Witness ==
    /\ scanProc["loop"].pc = "txs"
    /\ scanProc["loop"].cur > scanProc["loop"].start
    /\ \E b \in blocks : b.number = scanProc["loop"].cur
    /\ \E o \in blocks : o.number = scanProc["loop"].cur - 1

\* A stored, non-orphaned block holds the transfer to a tracked address, the
\* fetch of its receipt failed when the block was scanned, and no
\* transactions row has been made for it.
ReceiptFetchSkipped ==
    \E b \in blocks :
       /\ b.status # "orphaned"
       /\ b.hash \in receiptSkipped
       /\ ScanTx \in BlockTransactions(b.hash)
       /\ ~TransactionExists(ScanTx.hash)

\* Every transfer to a tracked address in a stored, non-orphaned block has its
\* deposit row.
DepositsRecorded ==
    \A b \in blocks :
       (b.status # "orphaned" /\ ScanTx \in BlockTransactions(b.hash))
          => \E t \in transactions : t.id = ScanTx.hash /\ t.type = "deposit"

\* C32: a failed receipt fetch is retried by the scan loop: while the loop
\* keeps running and its calls succeed, every successful transfer to a tracked
\* address in a persisted non-orphaned block eventually has a deposit row.
C32_SkippedReceiptRetried == ReceiptFetchSkipped ~> DepositsRecorded

\* The status of the withdraws row with the given id.
StatusOf(rows, wid) == (CHOOSE w \in rows : w.id = wid).status

DepositLogs ==
    {i \in 1..Len(analyzer.logs) :
        /\ analyzer.logs[i].topics >= minTransferEventTopics
        /\ IsUserAddress(1, analyzer.logs[i].to)}

\* C34: for a transaction with a successful receipt that contains k Transfer
\* logs (each with at least 3 topics) to tracked addresses, the analyzer
\* inserts k deposit rows, one per log.
C34_OneRowPerTransferLog ==
    analyzer.next > Len(analyzer.logs)
       => /\ Len(analyzer.rows) = Cardinality(DepositLogs)
          /\ \A i \in DepositLogs :
                \E j \in 1..Len(analyzer.rows) : analyzer.rows[j].log_index = i

\* The callers that have a sweep of wallet w in progress.
Sweeping(w) ==
    {p \in Collectors : /\ collectProc[p].wallet = w
                        /\ collectProc[p].pc \in {"erc20", "native"}}

\* C35: at any time at most one sweep of a given user wallet, native or
\* ERC-20, is in progress, whatever the interleaving of the periodic collect
\* cycle and manual CollectWallet calls.
C35_OneSweepPerWallet ==
    \A w \in CollectWallets : Cardinality(Sweeping(w)) <= 1

\* C36: after any sequence of StartMultiChainScan and StartChainScan calls,
\* at most one scan loop is running for each chain.
C36_OneScanLoopPerChain ==
    \A c \in ActiveChains : scanLoops[c] <= 1

\* C37 as stated: in one RebalanceForChain run every executed transfer has
\* amount min(donor surplus, receiver need) and is at least the gas buffer,
\* the surplus being the donor's balance above the max threshold and the need
\* the amount the receiver misses to reach the min threshold.
C37_TransferIsMinSurplusNeed ==
    \A k \in 1..Len(rebal.transfers) :
        LET t == rebal.transfers[k] IN
        /\ t.amount = MinOf(t.surplus, t.need)
        /\ t.amount >= rebalanceGasBufferWei

\* C37, amended: every executed transfer has amount
\* min(donor surplus - gas buffer, receiver need) and is positive; the donor
\* keeps at least the max threshold plus the gas buffer and the receiver does
\* not pass the min threshold.
C37_TransferIsMinAvailableNeed ==
    /\ \A k \in 1..Len(rebal.transfers) :
        LET t == rebal.transfers[k] IN
        /\ t.amount = MinOf(t.surplus - rebalanceGasBufferWei, t.need)
        /\ t.amount > 0
        /\ t.surplus - t.amount >= rebalanceGasBufferWei
    /\ \A k \in 1..Len(rebal.receivers) :
        Len(rebal.transfers) > 0 =>
            rebal.receivers[k].balance <= rebalanceMinBalanceWei

\* A run has executed a transfer bounded by the donor (less than the need)
\* and one bounded by the receiver's need.
C37_Witness ==
    /\ \E k \in 1..Len(rebal.transfers) :
          /\ rebal.transfers[k].amount < rebal.transfers[k].need
          /\ rebal.transfers[k].amount < rebalanceGasBufferWei
    /\ \E k \in 1..Len(rebal.transfers) :
          rebal.transfers[k].amount = rebal.transfers[k].need

\* C38: after the root context is cancelled, each long-running task (per-chain
\* scan loop, deposit backfill worker, auto-collect loop, auto-rebalance loop)
\* eventually returns and starts no new tick.  Checked here: once the context
\* is cancelled no task starts a cycle.
C38_NoTickAfterCancel ==
    [][ctxCancelled =>
         \A t \in Tasks : taskProc'[t] = "tick" => taskProc[t] = "tick"]_vars

\* C39: under any interleaving of Initialize, GetSeed and Clear, GetSeed
\* returns either nil or a complete copy of the seed installed by a completed
\* Initialize, never a partially written or zeroed buffer, and changing the
\* returned copy does not change what later GetSeed calls return: the
\* manager's buffer, whenever no writer holds the lock, is an installed seed.
C39_GetSeedReturnsInstalledSeed ==
    /\ \A p \in SeedProcs :
          seedProc[p].pc = "returned" =>
              \/ seedProc[p].result = <<>>
              \/ seedProc[p].result \in seedInstalled
    /\ (seedMu.writer = 0 /\ seedMgr.seed # 0) =>
          seedHeap[seedMgr.seed] \in seedInstalled

\* A GetSeed called after another caller wrote into the copy it was given
\* has returned a seed.
C39_Witness ==
    \E p \in SeedProcs :
        /\ seedProc[p].pc = "returned"
        /\ seedProc[p].late
        /\ seedProc[p].result \in seedInstalled
        /\ \E q \in SeedProcs \ {p} :
              seedProc[q].written /\ seedHeap[seedProc[q].buf][1] \in CallerBytes

\* C40: getClient returns the error "all RPC clients are unavailable" only if
\* every configured endpoint failed its liveness probe or reconnect attempt
\* during that call; otherwise it returns a live endpoint and records it as
\* the current one, also when several callers run getClient concurrently.
\* Checked here: a call that returned the error saw every endpoint fail.
C40_ErrorOnlyIfAllEndpointsFailed ==
    \A p \in RpcCallers :
        (rpcProc[p].pc = "returned" /\ rpcProc[p].result = RpcUnavailable)
            => rpcProc[p].failed = Endpoints

============================================================================
